---- MODULE Spec2Model ----
(***************************************************************************)
(* Transaction lifecycle of the oracle client: buildTransaction and        *)
(* makeServerRequest (src/src/rpc-helper.js), submitTransaction and        *)
(* getTransaction (src/src/client-base.js, and the bounded helper of       *)
(* src/test/index.test.js).                                                *)
(***************************************************************************)
EXTENDS Integers, Sequences, FiniteSets, TLC

(* ------------------------------ bounds --------------------------------- *)
\* longest endpoint list explored
MaxUrls == 2
\* number of getTransaction requests after which the model stops following
\* a submission of the unbounded client
MaxPolls == 24

\* largest raw figure whose rounding is explored
MaxValue == 15001
\* largest raw resource figure of the first of two simulations of one call
MaxRaw == 20
\* largest number of keypairs given to signTransaction
MaxSigners == 3
\* largest price and largest timestamp of a decoded price record
MaxPrice == 5
\* number of prices explored after the run of equal prices that leads a list
MaxTail == 3
\* largest key of a deposit-parameter mapping
MaxKey == 3
\* number of different addresses of a kind, and of different short codes
MaxCode == 2
\* number of times other flows advance the account during one simulation
MaxAdvance == 1
\* number of makeServerRequest calls in flight on one endpoint list
MaxCalls == 2

(* ------------------------- program constants --------------------------- *)
\* `if (++tries > 20)` of the bounded submitTransaction
RetryBound == 20
\* `if (resourceFee < 10000000n)`
MinResourceFee == 10000000
\* BASE_FEE of the SDK, parsed by getRestoreTransaction
BASE_FEE == 100
\* Buffer.alloc(32, 0) and `if (byte >= 32)` of generateUpdateRecordMask
MaskBytes == 32

(* ------------------------------ domains -------------------------------- *)
Urls == {"u1", "u2"}
Hashes == {"h1", "h2"}
SendStatuses == {"PENDING", "ERROR", "DUPLICATE", "TRY_AGAIN_LATER"}
GetStatuses == {"NOT_FOUND", "PENDING", "SUCCESS", "FAILED"}

RECURSIVE SeqsUpTo(_, _)
SeqsUpTo(S, n) ==
    IF n = 0 THEN {<<>>}
    ELSE LET shorter == SeqsUpTo(S, n - 1)
         IN  shorter \cup {Append(s, x) : s \in shorter, x \in S}

UrlLists == SeqsUpTo(Urls, MaxUrls)

(* ------------------------------- state --------------------------------- *)
VARIABLES
    sorobanRpcUrl,  \* client.sorobanRpcUrl: the ordered endpoint list
    bounded,        \* TRUE: submitTransaction of test/index.test.js (tries);
                    \* FALSE: OracleClient.submitTransaction
    \* --- makeServerRequest, the call in progress
    req,            \* what requestFn asks: "none", "simulate", "send", "get"
    mpc,            \* position: "idle", "loop", "log", "throw", "done"
    idx,            \* list position the for-loop is at
    tried,          \* list positions on which requestFn was invoked
    answered,       \* the invocations that returned: position and value
    errors,         \* the errors array
    debugLog,       \* console.debug lines of this call
    errorLog,       \* console.error lines of this call
    ret,            \* how the call ended
    calls,          \* makeServerRequest calls made so far, by kind of request
    \* --- the caller of buildTransaction
    options,        \* the options object it passes (present = FALSE: none)
    source,         \* the Account object it passes
    processed,      \* its processResponse callback has run
    \* --- buildTransaction
    bpc,            \* "idle", "simulate", "done"
    txBuilderOptions,
    simulationResponse,
    transaction,    \* the draft handed to simulateTransaction
    bres,           \* how buildTransaction ended
    simulateCount,  \* simulateTransaction requests received by endpoints
    \* --- submitTransaction
    spc,            \* "idle", "send", "get", "loop", "loopget", "sleep", "done"
    tx,             \* const tx = new Transaction(txXdr, this.network)
    submitResult,   \* const submitResult
    hash,           \* const hash = submitResult.hash
    response,       \* let response
    tries,          \* let tries (bounded helper only)
    sres,           \* how submitTransaction ended
    sendCount,      \* sendTransaction requests received by endpoints
    getCount,       \* getTransaction requests issued by this submission
    delays,         \* inter-poll delays this submission has waited
    \* --- roundValue applied to a raw figure, and again to its result
    rawValue,       \* the argument of roundValue
    rounded,        \* roundValue(rawValue), -1 before the call
    twice,          \* roundValue(rounded), -1 before the call
    \* --- two clients building the same call
    rawCosts,       \* the simulation response each of them received
    assembled,      \* the transaction each of them built
    \* --- signTransaction
    transactionHash,\* what transaction.hash() gives for the argument
    keypairs,       \* the keypairs array of the caller
    kpc,            \* "idle", "sorted", "loop", "done"
    txHash,         \* const txHash
    selectedSigners,
    signatures,     \* const signatures, returned at the end
    \* --- decoding the return value of a contract call
    returnValue,    \* result.value().sorobanMeta().returnValue()
    resultValue,    \* what getSorobanResultValue(result) gave
    priceResult,    \* what parsePriceResult(result) gave
    \* --- setPrices
    prices,         \* update.prices
    mask,           \* the bytes of the 'mask' entry, <<>> before the call
    priceVec,       \* the elements of the 'prices' entry
    \* --- buildDepositParamsScVal
    depositParams,  \* the properties of the argument, as they were inserted
    depositEntries, \* the ScMapEntry list of the result
    dpc,            \* "idle", "done"
    \* --- the asset codec
    asset,          \* the Asset given to buildAssetScVal
    assetScVal,     \* how buildAssetScVal ended
    xdrAssetResult, \* the ScVal given to parseAssetResultInternal
    assetResult,    \* how parseAssetResultInternal ended
    \* --- concurrent makeServerRequest calls on one rpcUrls array
    callPc,         \* per call: "idle", "loop", "throw", "done"
    callIdx,        \* per call: the position of its for-loop in rpcUrls
    callErrors,     \* per call: its `errors` array
    callErrorLog,   \* per call: what it wrote with console.error
    callRet,        \* per call: what it returned or threw
    callOutcomes,   \* per call: how each of its own requests ended
    \* --- sends that raised after the node had taken the transaction
    lostAccepts,    \* positions in sorobanRpcUrl of the nodes that accepted
                    \* the transaction while their request raised
    \* --- the maps the facades build
    facade,         \* the call that is made
    emitted         \* the key lists of the maps in its argument

dvars == <<req, mpc, idx, tried, answered, errors, debugLog, errorLog, ret, calls>>
bvars == <<bpc, txBuilderOptions, simulationResponse, transaction, bres, simulateCount>>
svars == <<spc, tx, submitResult, hash, response, tries, sres, sendCount, getCount, delays>>
cvars == <<sorobanRpcUrl, bounded, options, source, processed>>
nvars == <<rawValue, rounded, twice>>
gvars == <<rawCosts, assembled>>
kvars == <<transactionHash, keypairs, kpc, txHash, selectedSigners, signatures>>
pvars == <<returnValue, resultValue, priceResult>>
mvars == <<prices, mask, priceVec>>
evars == <<depositParams, depositEntries, dpc>>
tvars == <<asset, assetScVal, xdrAssetResult, assetResult>>
qvars == <<callPc, callIdx, callErrors, callErrorLog, callRet, callOutcomes>>
rvars == <<lostAccepts>>
xvars == <<facade, emitted>>
avars == <<nvars, gvars, kvars, pvars, mvars, evars, tvars, qvars, rvars, xvars>>
vars == <<cvars, dvars, bvars, svars, avars>>


(* --------------------------- values exchanged -------------------------- *)
\* what a node answers to sendTransaction: an ERROR answer has an
\* errorResult, a PENDING answer has none, the other answers may lack it
SendResponses ==
    { r \in [status : SendStatuses, hash : Hashes, hasErrorResult : BOOLEAN] :
        /\ r.status = "PENDING" => ~r.hasErrorResult
        /\ r.status = "ERROR" => r.hasErrorResult }

\* what a node answers to getTransaction; the answer has no `hash` property,
\* and only a FAILED or SUCCESS answer has the three XDR payloads
GetResponse(st) ==
    LET final == st \in {"SUCCESS", "FAILED"}
    IN  [status |-> st, hash |-> "none",
         envelopeXdr |-> IF final THEN "envelope" ELSE "none",
         resultXdr |-> IF final THEN "result" ELSE "none",
         resultMetaXdr |-> IF final THEN "meta" ELSE "none"]

GetResponses == {GetResponse(st) : st \in GetStatuses}

NoResponse == [status |-> "none", hash |-> "none", envelopeXdr |-> "none",
               resultXdr |-> "none", resultMetaXdr |-> "none"]

\* a JavaScript Error object and the properties the code sets on it
NoError == [name |-> "none", message |-> "none", status |-> "none",
            hash |-> "none", errorResultXdr |-> "none", envelopeXdr |-> "none",
            resultXdr |-> "none", resultMetaXdr |-> "none"]

NewError(msg) == [NoError EXCEPT !.name = "Error", !.message = msg]

\* reading `.toXDR` of an undefined errorResult
TypeError == [NoError EXCEPT !.name = "TypeError",
                             !.message = "Cannot read properties of undefined"]

NoRet == [kind |-> "none", val |-> NoResponse, err |-> NoError]

(* ---------------------- resource-fee normalizer ------------------------ *)
RECURSIVE Log10Floor(_)
\* Math.floor(Math.log10(n)) for an integer n >= 1
Log10Floor(n) == IF n < 10 THEN 0 ELSE 1 + Log10Floor(n \div 10)

RECURSIVE Pow10(_)
\* Math.pow(10, exponent)
Pow10(exponent) == IF exponent = 0 THEN 1 ELSE 10 * Pow10(exponent - 1)

\* variant: the factor is the next power of ten above the value
getFactorOfValueAbove(n) == Pow10(Log10Floor(n) + 1)

getFactorOfValue(n) == Pow10(Log10Floor(n))

\* variant: the value is not doubled before the division
roundValueNoDouble(v) ==
    IF v = 0 THEN v
    ELSE LET factor == getFactorOfValue(v)
         IN  (v \div factor) * factor

\* variant: the value is rounded up to the next multiple of its factor
roundValueUp(v) ==
    IF v = 0 THEN v
    ELSE LET factor == getFactorOfValue(v)
         IN  ((v + factor - 1) \div factor) * factor

roundValue(value) ==
    IF value = 0 THEN value
    ELSE LET factor == getFactorOfValue(value)
         IN  ((value * 2) \div factor) * factor

(* ------------------------ decoded result values ----------------------- *)
\* a JavaScript value a decoder handles: undefined, null, an xdr.ScVal
\* object (arm scvVoid, scvBool or the scvMap of a price record), a Price
\* object, or a TypeError that was raised
JsValue(js, arm, b, price, timestamp) ==
    [js |-> js, arm |-> arm, b |-> b, price |-> price, timestamp |-> timestamp]

NotDecoded == JsValue("pending", "none", FALSE, 0, 0)
JsUndefined == JsValue("undefined", "none", FALSE, 0, 0)
JsNull == JsValue("null", "none", FALSE, 0, 0)
JsTypeError == JsValue("TypeError", "none", FALSE, 0, 0)
JsPrice(price, timestamp) == JsValue("Price", "none", FALSE, price, timestamp)

\* xdr.ScVal.scvVoid(): the contract returned None
ScvVoid == JsValue("ScVal", "scvVoid", FALSE, 0, 0)
\* xdr.ScVal.scvBool(b)
ScvBool(b) == JsValue("ScVal", "scvBool", b, 0, 0)
\* the scvMap of a PriceData record: entries price and timestamp
ScvPriceData(price, timestamp) == JsValue("ScVal", "scvMap", FALSE, price, timestamp)

\* the return values a price query can leave in the result meta
ReturnValues ==
    {ScvVoid, ScvBool(FALSE), ScvBool(TRUE)}
        \cup {ScvPriceData(p, t) : p \in 0..MaxPrice, t \in 0..MaxPrice}

(* ------------------------- assets and their ScVal ---------------------- *)
\* AssetType.Stellar and AssetType.Other
AssetTypeStellar == 1
AssetTypeOther == 2

\* a string used as asset code: the strkey of a contract ("C", 56
\* characters), the strkey of an account ("G", 56 characters) or a short
\* text; id tells strings of one form apart
CodeString(form, id) == [form |-> form, id |-> id]
CodeStrings == {CodeString(f, i) : f \in {"C", "G", "text"}, i \in 1..MaxCode}

AssetOf(type, code) == [type |-> type, code |-> code]
NoAsset == AssetOf(0, CodeString("none", 0))
\* the two types of the enum, and two values that are not in it
Assets == {AssetOf(t, c) : t \in 0..3, c \in CodeStrings}

\* the second element of the vector: xdr.ScVal.scvSymbol(string), or the
\* scvAddress of an Address, whose ScAddress is of type account (form "G")
\* or contract (form "C") and holds the key or hash the strkey encodes
ScvItem(arm, form, id) == [arm |-> arm, form |-> form, id |-> id]
ScvItems ==
    {ScvItem("scvSymbol", c.form, c.id) : c \in CodeStrings}
        \cup {ScvItem("scvAddress", f, i) : f \in {"C", "G"}, i \in 1..MaxCode}

\* xdr.ScVal.scvVec([xdr.ScVal.scvSymbol(tag), item])
AssetScVal(tag, item) == [tag |-> tag, item |-> item]
NoAssetScVal == AssetScVal("none", ScvItem("none", "none", 0))
\* the vectors a result can hold, with tags that name no asset type too
AssetScVals ==
    {AssetScVal(tag, item) : tag \in {"Stellar", "Other", "Unknown", "stellar"},
                             item \in ScvItems}

\* how a codec function ended: a returned ScVal or Asset, or an Error
NoEncoding == [kind |-> "pending", val |-> NoAssetScVal, err |-> "none"]
NoDecoding == [kind |-> "pending", val |-> NoAsset, err |-> "none"]

(* ------------------------- simulation responses ------------------------ *)
RawFees == {0, 1, 1234, 15001, 4999999, 5000000, 12345678}
RawCosts == {<<0, 0, 0>>, <<1234, 999, 15001>>, <<1235, 1000, 15002>>}
RestoreFees == {0, 1134, 14901, 4999900}
SimErrors == {"HostError: contract call failed", "HostError: auth failed"}

\* the fields of a simulateTransaction answer that buildTransaction reads:
\* error ("none": absent), restore (rpc.Api.isSimulationRestore), and
\* whether Number(minResourceFee) is a number
NoSim == [error |-> "none", restore |-> FALSE, feeNumeric |-> FALSE,
          minResourceFee |-> 0, restoreMinResourceFee |-> 0,
          instructions |-> 0, readBytes |-> 0, writeBytes |-> 0]

SimError(e, r) == [NoSim EXCEPT !.error = e, !.restore = r]

SimRestore(f) ==
    [NoSim EXCEPT !.restore = TRUE, !.feeNumeric = TRUE,
                  !.restoreMinResourceFee = f]

SimSuccess(f, c) ==
    [NoSim EXCEPT !.feeNumeric = TRUE, !.minResourceFee = f,
                  !.instructions = c[1], !.readBytes = c[2],
                  !.writeBytes = c[3]]

SimResponses ==
    {SimError(e, r) : e \in SimErrors, r \in BOOLEAN}
        \cup {SimRestore(f) : f \in RestoreFees}
        \cup {SimSuccess(f, c) : f \in RawFees, c \in RawCosts}
        \cup {NoSim}

(* ------------------------ options and transactions --------------------- *)
Network == "Test SDF Network"

\* an options object; "none" is a property the object does not have
NoOptions == [present |-> FALSE, fee |-> 0, memo |-> "none",
              networkPassphrase |-> "none", simulationOnly |-> FALSE,
              timebounds |-> [minTime |-> 0, maxTime |-> 0]]

\* txOptions of the tests: fee 10000000 and a time-bounds window, no memo;
\* options with a memo string; and {...txOptions, simulationOnly: true}
OptionsSet ==
    {NoOptions,
     [present |-> TRUE, fee |-> 10000000, memo |-> "none",
      networkPassphrase |-> "none", simulationOnly |-> FALSE,
      timebounds |-> [minTime |-> 0, maxTime |-> 30]],
     [present |-> TRUE, fee |-> 10000000, memo |-> "update",
      networkPassphrase |-> "none", simulationOnly |-> FALSE,
      timebounds |-> [minTime |-> 0, maxTime |-> 30]],
     [present |-> TRUE, fee |-> 10000000, memo |-> "none",
      networkPassphrase |-> "none", simulationOnly |-> TRUE,
      timebounds |-> [minTime |-> 0, maxTime |-> 30]]}

\* Memo.text(options.memo), the null given for a missing memo, and the
\* Memo.none() a transaction built without memo carries
MemoText(m) == [type |-> "text", value |-> m]
NullMemo == [type |-> "null", value |-> "none"]
MemoNone == [type |-> "none", value |-> "none"]

\* a transaction: kind "invoke" (draft), "assembled" or "restore"; fee is the
\* fee option given to the TransactionBuilder
NoTx == [kind |-> "none", source |-> "none", seq |-> 0, fee |-> 0,
         memo |-> MemoNone, timebounds |-> [minTime |-> 0, maxTime |-> 0],
         network |-> "none", resourceFee |-> 0, instructions |-> 0,
         readBytes |-> 0, writeBytes |-> 0, signatures |-> <<>>]

NoBuilderOptions == [fee |-> 0, memo |-> NullMemo, networkPassphrase |-> "none"]

NoResult == [kind |-> "none", tx |-> NoTx, err |-> NoError]

\* the clients that build the same call, each against its own node
Signers == {1, 2}
\* raw minResourceFee figures around the steps of the rounding grid
SignerFees == {0, 1499, 4999999, 7499999, 12345678}
\* by how much the second simulation reports more than the first
Drift == {0, 1}

(* --------------------------- makeServerRequest ------------------------- *)
\* the requests the client wraps in a makeServerRequest call
RequestKinds == {"simulate", "send", "get"}

\* const errors = []; the for-loop starts at the head of rpcUrls
StartRequest(kind) ==
    /\ req' = kind
    /\ mpc' = "loop"
    /\ idx' = 1
    /\ tried' = <<>>
    /\ answered' = <<>>
    /\ errors' = <<>>
    /\ debugLog' = <<>>
    /\ errorLog' = <<>>
    /\ ret' = NoRet
    /\ calls' = [calls EXCEPT ![kind] = @ + 1]

\* the answers a node can give to the request in flight
Answers(kind) ==
    CASE kind = "send" -> SendResponses
      [] kind = "get" -> GetResponses
      [] kind = "simulate" -> SimResponses
      [] OTHER -> {}

\* requests received by the nodes, by kind of request
CountRequest ==
    /\ simulateCount' = IF req = "simulate" THEN simulateCount + 1 ELSE simulateCount
    /\ sendCount' = IF req = "send" THEN sendCount + 1 ELSE sendCount

\* variant: the value is kept but the loop goes on to the next rpcUrl
RequestReturnsKeepsGoing ==
    /\ mpc = "loop"
    /\ idx <= Len(sorobanRpcUrl)
    /\ \E v \in Answers(req) :
          /\ ret' = [kind |-> "value", val |-> v, err |-> NoError]
          /\ answered' = Append(answered, [at |-> idx, val |-> v])
    /\ tried' = Append(tried, idx)
    /\ idx' = idx + 1
    /\ mpc' = IF idx = Len(sorobanRpcUrl) THEN "done" ELSE "loop"
    /\ CountRequest
    /\ UNCHANGED <<req, errors, debugLog, errorLog, calls>>
    /\ UNCHANGED <<cvars, bpc, txBuilderOptions, simulationResponse, transaction, bres>>
    /\ UNCHANGED <<spc, tx, submitResult, hash, response, tries, sres, getCount, delays>>
    /\ UNCHANGED avars

\* try-block: `return await requestFn(server)` returns a value
RequestReturns ==
    /\ mpc = "loop"
    /\ idx <= Len(sorobanRpcUrl)
    /\ \E v \in Answers(req) :
          /\ ret' = [kind |-> "value", val |-> v, err |-> NoError]
          /\ answered' = Append(answered, [at |-> idx, val |-> v])
    /\ tried' = Append(tried, idx)
    /\ mpc' = "done"
    /\ CountRequest
    /\ UNCHANGED <<req, idx, errors, debugLog, errorLog, calls>>
    /\ UNCHANGED <<cvars, bpc, txBuilderOptions, simulationResponse, transaction, bres>>
    /\ UNCHANGED <<spc, tx, submitResult, hash, response, tries, sres, getCount, delays>>
    /\ UNCHANGED avars

\* catch-block: console.debug, errors.push(e), next rpcUrl
RequestRaises ==
    /\ mpc = "loop"
    /\ idx <= Len(sorobanRpcUrl)
    /\ tried' = Append(tried, idx)
    /\ debugLog' = Append(debugLog, [url |-> sorobanRpcUrl[idx], at |-> idx])
    /\ errors' = Append(errors, [url |-> sorobanRpcUrl[idx], at |-> idx])
    /\ idx' = idx + 1
    /\ CountRequest
    /\ UNCHANGED <<req, mpc, answered, errorLog, ret, calls>>
    /\ UNCHANGED <<cvars, bpc, txBuilderOptions, simulationResponse, transaction, bres>>
    /\ UNCHANGED <<spc, tx, submitResult, hash, response, tries, sres, getCount, delays>>
    /\ UNCHANGED avars

\* variant: the collected errors are dropped without console.error
LogErrorsSkipped ==
    /\ mpc = "loop"
    /\ idx > Len(sorobanRpcUrl)
    /\ errorLog' = <<>>
    /\ mpc' = "throw"
    /\ UNCHANGED <<req, idx, tried, answered, errors, debugLog, ret, calls>>
    /\ UNCHANGED <<cvars, bvars, svars>>
    /\ UNCHANGED avars

\* the list is exhausted: `for (const e of errors) console.error(e)`
LogErrors ==
    /\ mpc = "loop"
    /\ idx > Len(sorobanRpcUrl)
    /\ errorLog' = errors
    /\ mpc' = "throw"
    /\ UNCHANGED <<req, idx, tried, answered, errors, debugLog, ret, calls>>
    /\ UNCHANGED <<cvars, bvars, svars>>
    /\ UNCHANGED avars

\* throw new Error('Failed to make request.')
ThrowAggregate ==
    /\ mpc = "throw"
    /\ ret' = [kind |-> "throw", val |-> NoResponse,
               err |-> NewError("Failed to make request.")]
    /\ mpc' = "done"
    /\ UNCHANGED <<req, idx, tried, answered, errors, debugLog, errorLog, calls>>
    /\ UNCHANGED <<cvars, bvars, svars>>
    /\ UNCHANGED avars


\* the caller takes the outcome of makeServerRequest; its locals are gone
EndRequest ==
    /\ req' = "none"
    /\ mpc' = "idle"
    /\ idx' = 1
    /\ tried' = <<>>
    /\ answered' = <<>>
    /\ errors' = <<>>
    /\ debugLog' = <<>>
    /\ errorLog' = <<>>
    /\ ret' = NoRet
    /\ UNCHANGED calls

(* ---------------------------- buildTransaction ------------------------- *)
\* variant: the missing options are not detected
OptionsMissingIgnored(opts) == FALSE

\* if (!options)
OptionsMissing(opts) == ~opts.present

\* const txBuilderOptions = structuredClone(options), then memo,
\* networkPassphrase (and timebounds, kept apart in this model) are set
BuilderOptions(opts) ==
    [fee |-> opts.fee,
     memo |-> IF opts.memo # "none" THEN MemoText(opts.memo) ELSE NullMemo,
     networkPassphrase |-> Network]

\* variant: txBuilderOptions is the caller's object itself, not a clone
CallerOptionsAliased(opts, written) ==
    [opts EXCEPT !.fee = written.fee,
                 !.networkPassphrase = written.networkPassphrase]

\* the caller's options object once buildTransaction has written `written`
\* into txBuilderOptions: structuredClone made that a separate object
CallerOptions(opts, written) == opts

\* variant: the TransactionBuilder is given the caller's Account, whose
\* sequence number build() increments
SourceAfterBuildOnLive(account) == [account EXCEPT !.sequence = @ + 1]

\* the caller's Account once a TransactionBuilder has built: it was given
\* new Account(source.accountId(), source.sequence.toString()), a copy
SourceAfterBuild(account) == account

\* the memo of a transaction built with a memo option: null gives Memo.none()
BuilderMemo(m) == IF m = NullMemo THEN MemoNone ELSE m

\* new TransactionBuilder(account, opts).addOperation(operation).build():
\* one operation, sequence number of the account plus one
BuildDraft(account, opts, timebounds) ==
    [NoTx EXCEPT !.kind = "invoke", !.source = account.id,
                 !.seq = account.sequence + 1, !.fee = opts.fee,
                 !.memo = BuilderMemo(opts.memo), !.timebounds = timebounds,
                 !.network = opts.networkPassphrase]

\* getRestoreTransaction(simulationResponse, source, txOptions)
getRestoreTransaction(sim, account, opts, timebounds) ==
    LET fee == BASE_FEE + sim.restoreMinResourceFee
    IN  [NoTx EXCEPT !.kind = "restore", !.source = account.id,
                     !.seq = account.sequence + 1, !.fee = roundValue(fee),
                     !.memo = BuilderMemo(opts.memo), !.timebounds = timebounds,
                     !.network = opts.networkPassphrase]

\* variant: the rounded fee is written without the floor
ResourceFeeNoFloor(rawFee) == roundValue(rawFee)

\* the resource fee written by setResourceFee: rounded, then floored
ResourceFee(rawFee) ==
    LET resourceFee == roundValue(rawFee)
    IN  IF resourceFee < MinResourceFee THEN MinResourceFee ELSE resourceFee

\* rpc.assembleTransaction(transaction, simulationResponse).build() after
\* setResourceFee and setResources
Assemble(draft, sim) ==
    [draft EXCEPT !.kind = "assembled",
                  !.resourceFee = ResourceFee(sim.minResourceFee),
                  !.instructions = roundValue(sim.instructions),
                  !.readBytes = roundValue(sim.readBytes),
                  !.writeBytes = roundValue(sim.writeBytes)]

\* buildTransaction up to `await makeServerRequest(client.sorobanRpcUrl, request)`
BuildTransaction ==
    /\ bpc = "idle"
    /\ IF OptionsMissing(options)
       THEN /\ bres' = [kind |-> "throw", tx |-> NoTx,
                        err |-> NewError("options are required")]
            /\ bpc' = "done"
            /\ UNCHANGED <<txBuilderOptions, transaction, dvars, options, source>>
       ELSE /\ txBuilderOptions' = BuilderOptions(options)
            /\ options' = CallerOptions(options, txBuilderOptions')
            /\ transaction' = BuildDraft(source, txBuilderOptions', options.timebounds)
            /\ source' = SourceAfterBuild(source)
            /\ StartRequest("simulate")
            /\ bpc' = "simulate"
            /\ UNCHANGED bres
    /\ UNCHANGED <<sorobanRpcUrl, bounded, processed>>
    /\ UNCHANGED <<simulationResponse, simulateCount, svars>>
    /\ UNCHANGED avars

\* variant: no restore branch, the invocation is assembled
BuildOutcomeNoRestore(sim) ==
    IF sim.error # "none"
    THEN [kind |-> "throw", tx |-> NoTx, err |-> NewError(sim.error)]
    ELSE IF ~sim.feeNumeric
    THEN [kind |-> "throw", tx |-> NoTx,
          err |-> NewError("Failed to get resource fee from the simulation response.")]
    ELSE [kind |-> "return", tx |-> Assemble(transaction, sim), err |-> NoError]

\* variant: the restore check comes before the error check
BuildOutcomeRestoreFirst(sim) ==
    IF sim.restore
    THEN [kind |-> "return",
          tx |-> getRestoreTransaction(sim, source, txBuilderOptions, options.timebounds),
          err |-> NoError]
    ELSE IF sim.error # "none"
    THEN [kind |-> "throw", tx |-> NoTx, err |-> NewError(sim.error)]
    ELSE IF ~sim.feeNumeric
    THEN [kind |-> "throw", tx |-> NoTx,
          err |-> NewError("Failed to get resource fee from the simulation response.")]
    ELSE [kind |-> "return", tx |-> Assemble(transaction, sim), err |-> NoError]

\* the outcome buildTransaction gives for a simulation response
BuildOutcome(sim) ==
    IF sim.error # "none"
    THEN [kind |-> "throw", tx |-> NoTx, err |-> NewError(sim.error)]
    ELSE IF sim.restore
    THEN [kind |-> "return",
          tx |-> getRestoreTransaction(sim, source, txBuilderOptions, options.timebounds),
          err |-> NoError]
    ELSE IF ~sim.feeNumeric
    THEN [kind |-> "throw", tx |-> NoTx,
          err |-> NewError("Failed to get resource fee from the simulation response.")]
    ELSE [kind |-> "return", tx |-> Assemble(transaction, sim), err |-> NoError]

\* buildTransaction from the return of makeServerRequest to its own end
SimulateDone ==
    /\ bpc = "simulate"
    /\ mpc = "done"
    /\ IF ret.kind = "throw"
       THEN /\ bres' = [kind |-> "throw", tx |-> NoTx, err |-> ret.err]
            /\ UNCHANGED simulationResponse
       ELSE /\ simulationResponse' = ret.val
            /\ bres' = BuildOutcome(ret.val)
    /\ IF ret.kind = "value" /\ ret.val.error = "none" /\ ret.val.restore
       THEN /\ txBuilderOptions' =
                  [txBuilderOptions EXCEPT
                      !.fee = roundValue(BASE_FEE + ret.val.restoreMinResourceFee)]
            /\ options' = CallerOptions(options, txBuilderOptions')
            /\ source' = SourceAfterBuild(source)
       ELSE UNCHANGED <<txBuilderOptions, options, source>>
    /\ bpc' = "done"
    /\ EndRequest
    /\ UNCHANGED <<sorobanRpcUrl, bounded, processed>>
    /\ UNCHANGED <<transaction, simulateCount, svars>>
    /\ UNCHANGED avars


(* --------------------------- submitTransaction ------------------------- *)
NoSend == [status |-> "none", hash |-> "none", hasErrorResult |-> FALSE]

NoSubmit == [kind |-> "none", response |-> NoResponse, err |-> NoError]

\* while (response.status === 'PENDING' || response.status === 'NOT_FOUND')
Waiting(st) == st = "PENDING" \/ st = "NOT_FOUND"

\* variant: the counter is never compared with the bound
RetriesNeverExceeded(t) == FALSE

\* if (++tries > 20), with t the incremented counter
RetriesExceeded(t) == t > RetryBound

\* throw new Error('Transaction not found after 10 tries')
TimeoutError == NewError("Transaction not found after 10 tries")

\* variant: the response is returned as received
WithHashDropped(resp, h) == resp

\* response.hash = hash
WithHash(resp, h) == [resp EXCEPT !.hash = h]

\* the error thrown for a send answer other than PENDING; reading
\* submitResult.errorResult.toXDR of an answer without errorResult raises
RejectionError(sent) ==
    IF sent.hasErrorResult
    THEN [NewError("Transaction submit failed") EXCEPT
              !.status = sent.status,
              !.errorResultXdr = "errorResult",
              !.hash = sent.hash]
    ELSE TypeError

\* the signatures argument: what signTransaction made for the transaction
SignatureArgs == {<<"sigA", "sigB">>}

\* transaction.toXDR(): the envelope holds the transaction and its
\* signatures, not the network passphrase
toXDR(t) == [t EXCEPT !.network = "none"]

\* new Transaction(txXdr, this.network)
NewTransaction(txXdr, network) == [txXdr EXCEPT !.network = network]

\* signatures.forEach(signature => tx.addDecoratedSignature(signature))
AddSignatures(t, sigs) == [t EXCEPT !.signatures = @ \o sigs]

\* variant: the signatures are added to the transaction that was passed
CallerTransactionSigned(t, sigs) == AddSignatures(t, sigs)

\* the transaction object the caller passed, once the signatures were
\* added to tx, which is another object made from its XDR
CallerTransaction(t, sigs) == t

\* the caller passes the transaction it got from buildTransaction, whose
\* locals no longer exist; submitTransaction re-serializes the transaction
\* and runs up to `await makeServerRequest(this.sorobanRpcUrl, requestFn)`.
\* A caller that asked for simulationOnly reads the result and submits
\* nothing
submitTransaction(sigs) ==
    /\ spc = "idle"
    /\ bpc = "done"
    /\ bres.kind = "return"
    /\ ~options.simulationOnly
    /\ tx' = AddSignatures(NewTransaction(toXDR(bres.tx), Network), sigs)
    /\ bres' = [bres EXCEPT !.tx = CallerTransaction(bres.tx, sigs)]
    /\ StartRequest("send")
    /\ spc' = "send"
    /\ txBuilderOptions' = NoBuilderOptions
    /\ simulationResponse' = NoSim
    /\ transaction' = NoTx
    /\ UNCHANGED <<cvars, bpc, simulateCount>>
    /\ UNCHANGED <<submitResult, hash, response, tries, sres, sendCount, getCount, delays>>
    /\ UNCHANGED avars

\* submitTx: submitTransaction(tx, signatures) with the signatures that
\* signTransaction made
SubmitTransaction == \E sigs \in SignatureArgs : submitTransaction(sigs)

\* submitTransaction(transaction): the parameter takes its default,
\* signatures = []
SubmitTransactionDefault == submitTransaction(<<>>)

\* variant: a rejected transaction is sent once more
SendDoneResend ==
    /\ spc = "send"
    /\ mpc = "done"
    /\ IF ret.kind = "throw"
       THEN /\ sres' = [kind |-> "throw", response |-> NoResponse, err |-> ret.err]
            /\ spc' = "done"
            /\ EndRequest
            /\ UNCHANGED <<submitResult, hash, getCount>>
       ELSE IF ret.val.status # "PENDING" /\ calls["send"] < 2
       THEN /\ StartRequest("send")
            /\ UNCHANGED <<submitResult, sres, spc, hash, getCount>>
       ELSE IF ret.val.status # "PENDING"
       THEN /\ submitResult' = ret.val
            /\ sres' = [kind |-> "throw", response |-> NoResponse,
                        err |-> RejectionError(ret.val)]
            /\ spc' = "done"
            /\ EndRequest
            /\ UNCHANGED <<hash, getCount>>
       ELSE /\ submitResult' = ret.val
            /\ hash' = ret.val.hash
            /\ StartRequest("get")
            /\ getCount' = getCount + 1
            /\ spc' = "get"
            /\ UNCHANGED sres
    /\ UNCHANGED <<cvars, bvars, tx, response, tries, sendCount, delays>>
    /\ UNCHANGED avars

\* from the answer of the send to the first getTransaction(hash)
SendDone ==
    /\ spc = "send"
    /\ mpc = "done"
    /\ IF ret.kind = "throw"
       THEN /\ sres' = [kind |-> "throw", response |-> NoResponse, err |-> ret.err]
            /\ spc' = "done"
            /\ EndRequest
            /\ UNCHANGED <<submitResult, hash, getCount>>
       ELSE IF ret.val.status # "PENDING"
       THEN /\ submitResult' = ret.val
            /\ sres' = [kind |-> "throw", response |-> NoResponse,
                        err |-> RejectionError(ret.val)]
            /\ spc' = "done"
            /\ EndRequest
            /\ UNCHANGED <<hash, getCount>>
       ELSE /\ submitResult' = ret.val
            /\ hash' = ret.val.hash
            /\ StartRequest("get")
            /\ getCount' = getCount + 1
            /\ spc' = "get"
            /\ UNCHANGED sres
    /\ UNCHANGED <<cvars, bvars, tx, response, tries, sendCount, delays>>
    /\ UNCHANGED avars

\* variant: a getTransaction that failed on every endpoint is taken for
\* NOT_FOUND and the polling goes on
GetDoneSwallowsFailure ==
    /\ spc = "get"
    /\ mpc = "done"
    /\ response' = IF ret.kind = "throw" THEN GetResponse("NOT_FOUND") ELSE ret.val
    /\ spc' = "loop"
    /\ EndRequest
    /\ UNCHANGED <<cvars, bvars, tx, submitResult, hash, tries, sres, sendCount, getCount, delays>>
    /\ UNCHANGED avars

\* let response = await this.getTransaction(hash)
GetDone ==
    /\ spc = "get"
    /\ mpc = "done"
    /\ IF ret.kind = "throw"
       THEN /\ sres' = [kind |-> "throw", response |-> NoResponse, err |-> ret.err]
            /\ spc' = "done"
            /\ UNCHANGED response
       ELSE /\ response' = ret.val
            /\ spc' = "loop"
            /\ UNCHANGED sres
    /\ EndRequest
    /\ UNCHANGED <<cvars, bvars, tx, submitResult, hash, tries, sendCount, getCount, delays>>
    /\ UNCHANGED avars

\* the while condition holds: response = await this.getTransaction(hash)
PollAgain ==
    /\ spc = "loop"
    /\ Waiting(response.status)
    /\ getCount < MaxPolls
    /\ StartRequest("get")
    /\ getCount' = getCount + 1
    /\ spc' = "loopget"
    /\ UNCHANGED <<cvars, bvars, tx, submitResult, hash, response, tries, sres, sendCount, delays>>
    /\ UNCHANGED avars

\* the in-loop getTransaction answered; the bounded helper counts the try
LoopGetDone ==
    /\ spc = "loopget"
    /\ mpc = "done"
    /\ IF ret.kind = "throw"
       THEN /\ sres' = [kind |-> "throw", response |-> NoResponse, err |-> ret.err]
            /\ spc' = "done"
            /\ UNCHANGED <<response, tries>>
       ELSE /\ response' = ret.val
            /\ tries' = IF bounded THEN tries + 1 ELSE tries
            /\ IF bounded /\ RetriesExceeded(tries')
               THEN /\ sres' = [kind |-> "throw", response |-> NoResponse,
                                err |-> TimeoutError]
                    /\ spc' = "done"
               ELSE /\ spc' = "sleep"
                    /\ UNCHANGED sres
    /\ EndRequest
    /\ UNCHANGED <<cvars, bvars, tx, submitResult, hash, sendCount, getCount, delays>>
    /\ UNCHANGED avars

\* await new Promise(resolve => setTimeout(resolve, 500))
Delay ==
    /\ spc = "sleep"
    /\ spc' = "loop"
    /\ delays' = delays + 1
    /\ UNCHANGED <<cvars, dvars, bvars, tx, submitResult, hash, response, tries, sres, sendCount, getCount>>
    /\ UNCHANGED avars

\* the while condition fails: response.hash = hash; the error built for a
\* FAILED response is not thrown; return response
Finish ==
    /\ spc = "loop"
    /\ ~Waiting(response.status)
    /\ response' = WithHash(response, hash)
    /\ sres' = [kind |-> "return", response |-> response', err |-> NoError]
    /\ spc' = "done"
    /\ UNCHANGED <<cvars, dvars, bvars, tx, submitResult, hash, tries, sendCount, getCount, delays>>
    /\ UNCHANGED avars

(* ------------------------ the caller of the flow ----------------------- *)
\* processResponse(response) of submitTx, called with what submitTransaction
\* returned: expect(response.status).toBe('SUCCESS') raises for another
\* status, then config.adminAccount.incrementSequenceNumber()
ProcessResponse ==
    /\ spc = "done"
    /\ sres.kind = "return"
    /\ ~processed
    /\ processed' = TRUE
    /\ source' = IF sres.response.status = "SUCCESS"
                 THEN [source EXCEPT !.sequence = @ + 1]
                 ELSE source
    /\ UNCHANGED <<sorobanRpcUrl, bounded, options>>
    /\ UNCHANGED <<dvars, bvars, svars>>
    /\ UNCHANGED avars

(* ----------------------------- specification --------------------------- *)
\* the sequence number of the caller's account when the flow starts
StartSequence == 7

\* the flow before buildTransaction is called
InitFlow ==
    /\ sorobanRpcUrl \in UrlLists
    /\ bounded \in BOOLEAN
    /\ options \in OptionsSet
    /\ source = [id |-> "GADMIN", sequence |-> StartSequence]
    /\ processed = FALSE
    /\ req = "none"
    /\ mpc = "idle"
    /\ idx = 1
    /\ tried = <<>>
    /\ answered = <<>>
    /\ errors = <<>>
    /\ debugLog = <<>>
    /\ errorLog = <<>>
    /\ ret = NoRet
    /\ calls = [k \in RequestKinds |-> 0]
    /\ bpc = "idle"
    /\ txBuilderOptions = NoBuilderOptions
    /\ simulationResponse = NoSim
    /\ transaction = NoTx
    /\ bres = NoResult
    /\ simulateCount = 0
    /\ spc = "idle"
    /\ tx = NoTx
    /\ submitResult = NoSend
    /\ hash = "none"
    /\ response = NoResponse
    /\ tries = 0
    /\ sres = NoSubmit
    /\ sendCount = 0
    /\ getCount = 0
    /\ delays = 0

\* roundValue not called
IdleRound ==
    /\ rawValue = 0
    /\ rounded = -1
    /\ twice = -1

\* no second client
IdleSigners ==
    /\ rawCosts = [i \in Signers |-> NoSim]
    /\ assembled = [i \in Signers |-> NoTx]

\* signTransaction not called
IdleSign ==
    /\ transactionHash = "none"
    /\ keypairs = <<>>
    /\ kpc = "idle"
    /\ txHash = "none"
    /\ selectedSigners = <<>>
    /\ signatures = <<>>

\* no result decoded
IdleDecode ==
    /\ returnValue = NotDecoded
    /\ resultValue = NotDecoded
    /\ priceResult = NotDecoded

\* setPrices not called
IdleMask ==
    /\ prices = <<>>
    /\ mask = <<>>
    /\ priceVec = <<>>

\* buildDepositParamsScVal not called
IdleDeposit ==
    /\ depositParams = <<>>
    /\ depositEntries = <<>>
    /\ dpc = "idle"

\* the asset codec not called
IdleAsset ==
    /\ asset = NoAsset
    /\ assetScVal = NoEncoding
    /\ xdrAssetResult = NoAssetScVal
    /\ assetResult = NoDecoding

\* the makeServerRequest calls that share client.sorobanRpcUrl
Calls == 1..MaxCalls

\* what a requestFn can resolve to
CallValues == {"r1", "r2"}

NoCallRet == [kind |-> "none", val |-> "none"]

\* no facade was called
IdleMaps ==
    /\ facade = "none"
    /\ emitted = <<>>

\* no concurrent call was made, no send was lost
IdleCalls ==
    /\ lostAccepts = {}
    /\ callPc = [c \in Calls |-> "idle"]
    /\ callIdx = [c \in Calls |-> 1]
    /\ callErrors = [c \in Calls |-> <<>>]
    /\ callErrorLog = [c \in Calls |-> <<>>]
    /\ callRet = [c \in Calls |-> NoCallRet]
    /\ callOutcomes = [c \in Calls |-> <<>>]

Init ==
    /\ InitFlow
    /\ IdleCalls
    /\ IdleMaps
    /\ IdleRound
    /\ IdleSigners
    /\ IdleSign
    /\ IdleDecode
    /\ IdleMask
    /\ IdleDeposit
    /\ IdleAsset

Next ==
    \/ BuildTransaction
    \/ SimulateDone
    \/ SubmitTransaction
    \/ SendDone
    \/ GetDone
    \/ PollAgain
    \/ LoopGetDone
    \/ Delay
    \/ Finish
    \/ ProcessResponse
    \/ RequestReturns
    \/ RequestRaises
    \/ LogErrors
    \/ ThrowAggregate

Spec == Init /\ [][Next]_vars

(* ------------- buildTransaction beside other flows of the account ------ *)
\* another flow on the same Account object ends while this flow awaits the
\* simulation: its processResponse calls incrementSequenceNumber()
OtherFlowAdvances ==
    /\ bpc = "simulate"
    /\ source.sequence < StartSequence + MaxAdvance
    /\ source' = [source EXCEPT !.sequence = @ + 1]
    /\ UNCHANGED <<sorobanRpcUrl, bounded, options, processed>>
    /\ UNCHANGED <<dvars, bvars, svars>>
    /\ UNCHANGED avars

NextInterleaved ==
    \/ BuildTransaction
    \/ SimulateDone
    \/ RequestReturns
    \/ RequestRaises
    \/ LogErrors
    \/ ThrowAggregate
    \/ OtherFlowAdvances

SpecInterleaved == Init /\ [][NextInterleaved]_vars

(* ------ buildTransaction while the caller writes to its options ------- *)
\* the caller sets options.timebounds.maxTime for its next call while this
\* call awaits the simulation; txBuilderOptions.timebounds is that object
CallerChangesTimebounds ==
    /\ bpc = "simulate"
    /\ options.timebounds = transaction.timebounds
    /\ options' = [options EXCEPT !.timebounds.maxTime = @ + 1]
    /\ UNCHANGED <<sorobanRpcUrl, bounded, source, processed>>
    /\ UNCHANGED <<dvars, bvars, svars>>
    /\ UNCHANGED avars

NextCallerWrites ==
    \/ BuildTransaction
    \/ SimulateDone
    \/ RequestReturns
    \/ RequestRaises
    \/ LogErrors
    \/ ThrowAggregate
    \/ CallerChangesTimebounds

SpecCallerWrites == Init /\ [][NextCallerWrites]_vars

(* ----------- submitTransaction called without its second argument ------ *)
NextDefault ==
    \/ BuildTransaction
    \/ SimulateDone
    \/ SubmitTransactionDefault
    \/ SendDone
    \/ GetDone
    \/ PollAgain
    \/ LoopGetDone
    \/ Delay
    \/ Finish
    \/ ProcessResponse
    \/ RequestReturns
    \/ RequestRaises
    \/ LogErrors
    \/ ThrowAggregate

SpecDefault == Init /\ [][NextDefault]_vars

(* --------------------- roundValue on its own --------------------------- *)
\* a flow that is never started
IdleFlow ==
    /\ InitFlow
    /\ IdleCalls
    /\ IdleMaps
    /\ sorobanRpcUrl = <<>>
    /\ ~bounded
    /\ ~options.present

\* const r = roundValue(value)
RoundValue ==
    /\ rounded = -1
    /\ rounded' = roundValue(rawValue)
    /\ UNCHANGED <<rawValue, twice>>
    /\ UNCHANGED <<cvars, dvars, bvars, svars, gvars, kvars, pvars, mvars, evars, tvars, qvars, rvars, xvars>>

\* roundValue(r)
RoundAgain ==
    /\ rounded # -1
    /\ twice = -1
    /\ twice' = roundValue(rounded)
    /\ UNCHANGED <<rawValue, rounded>>
    /\ UNCHANGED <<cvars, dvars, bvars, svars, gvars, kvars, pvars, mvars, evars, tvars, qvars, rvars, xvars>>

InitNormalize ==
    /\ IdleFlow
    /\ IdleSigners
    /\ IdleSign
    /\ IdleDecode
    /\ IdleMask
    /\ IdleDeposit
    /\ IdleAsset
    /\ rawValue \in 0..MaxValue
    /\ rounded = -1
    /\ twice = -1

NextNormalize == RoundValue \/ RoundAgain

SpecNormalize == InitNormalize /\ [][NextNormalize]_vars

(* ------------------ two clients build the same call -------------------- *)
\* the part of buildTransaction after a successful simulation, run by
\* client i on the response its node gave
SignerBuilds(i) ==
    /\ assembled[i] = NoTx
    /\ assembled' =
          [assembled EXCEPT ![i] =
              Assemble(BuildDraft(source, BuilderOptions(options), options.timebounds),
                       rawCosts[i])]
    /\ UNCHANGED rawCosts
    /\ UNCHANGED <<cvars, dvars, bvars, svars, nvars, kvars, pvars, mvars, evars, tvars, qvars, rvars, xvars>>

\* same source, same options; the second response is the first plus a
\* drift of at most one unit on each figure
InitSigners ==
    /\ InitFlow
    /\ IdleCalls
    /\ IdleMaps
    /\ sorobanRpcUrl = <<>>
    /\ ~bounded
    /\ options.present
    /\ IdleRound
    /\ IdleSign
    /\ IdleDecode
    /\ IdleMask
    /\ IdleDeposit
    /\ IdleAsset
    /\ \E f \in SignerFees, n \in 0..MaxRaw, m \in 0..MaxRaw :
       \E df \in Drift, dn \in Drift, dm \in Drift :
          rawCosts = [i \in Signers |->
                        IF i = 1 THEN SimSuccess(f, <<n, m, m>>)
                        ELSE SimSuccess(f + df, <<n + dn, m + dm, m + dm>>)]
    /\ assembled = [i \in Signers |-> NoTx]

NextSigners == \E i \in Signers : SignerBuilds(i)

SpecSigners == InitSigners /\ [][NextSigners]_vars

(* ---------------------------- signTransaction -------------------------- *)
\* variant: half of the signers, without the one more
getMajorityHalf(totalSignersCount) == totalSignersCount \div 2

\* Math.floor(totalSignersCount / 2) + 1
getMajority(totalSignersCount) == totalSignersCount \div 2 + 1

\* the identities of the nodes
Identities == 1..MaxSigners

\* the arrays of distinct keypairs, the empty one included
KeypairLists ==
    {k \in SeqsUpTo(Identities, MaxSigners) :
        \A i, j \in 1..Len(k) : k[i] = k[j] => i = j}

\* the orders keypairs.sort(() => 0.5 - Math.random()) can leave the array in
Shuffles(k) ==
    LET n == Len(k)
        orders == {f \in [1..n -> 1..n] : \A i, j \in 1..n : f[i] = f[j] => i = j}
    IN  {[i \in 1..n |-> k[f[i]]] : f \in orders}

\* array.slice(0, end)
Slice(a, end) == SubSeq(a, 1, IF end < Len(a) THEN end ELSE Len(a))

\* signer.signDecorated(txHash): the hint of the key and its signature of
\* the hash
signDecorated(signer, h) == [hint |-> signer, signature |-> <<signer, h>>]

\* const txHash = transaction.hash(); keypairs.sort(...) sorts in place
\* and shuffledSigners is that same array
SortSigners ==
    /\ kpc = "idle"
    /\ txHash' = transactionHash
    /\ keypairs' \in Shuffles(keypairs)
    /\ kpc' = "sorted"
    /\ UNCHANGED <<transactionHash, selectedSigners, signatures>>
    /\ UNCHANGED <<cvars, dvars, bvars, svars, nvars, gvars, pvars, mvars, evars, tvars, qvars, rvars, xvars>>

\* const selectedSigners = shuffledSigners.slice(0, getMajority(keypairs.length))
SelectSigners ==
    /\ kpc = "sorted"
    /\ selectedSigners' = Slice(keypairs, getMajority(Len(keypairs)))
    /\ signatures' = <<>>
    /\ kpc' = "loop"
    /\ UNCHANGED <<transactionHash, keypairs, txHash>>
    /\ UNCHANGED <<cvars, dvars, bvars, svars, nvars, gvars, pvars, mvars, evars, tvars, qvars, rvars, xvars>>

\* one turn of `for (const signer of selectedSigners)`
SignNext ==
    /\ kpc = "loop"
    /\ Len(signatures) < Len(selectedSigners)
    /\ signatures' =
          Append(signatures,
                 signDecorated(selectedSigners[Len(signatures) + 1], txHash))
    /\ UNCHANGED <<transactionHash, keypairs, kpc, txHash, selectedSigners>>
    /\ UNCHANGED <<cvars, dvars, bvars, svars, nvars, gvars, pvars, mvars, evars, tvars, qvars, rvars, xvars>>

\* return signatures
ReturnSignatures ==
    /\ kpc = "loop"
    /\ Len(signatures) = Len(selectedSigners)
    /\ kpc' = "done"
    /\ UNCHANGED <<transactionHash, keypairs, txHash, selectedSigners, signatures>>
    /\ UNCHANGED <<cvars, dvars, bvars, svars, nvars, gvars, pvars, mvars, evars, tvars, qvars, rvars, xvars>>

InitSign ==
    /\ IdleFlow
    /\ IdleRound
    /\ IdleSigners
    /\ IdleDecode
    /\ IdleMask
    /\ IdleDeposit
    /\ IdleAsset
    /\ transactionHash \in Hashes
    /\ keypairs \in KeypairLists
    /\ kpc = "idle"
    /\ txHash = "none"
    /\ selectedSigners = <<>>
    /\ signatures = <<>>

NextSign == SortSigners \/ SelectSigners \/ SignNext \/ ReturnSignatures

SpecSign == InitSign /\ [][NextSign]_vars

(* ------------------------- decoding a price result --------------------- *)
\* getSorobanResultValue(result): `value.value() === false` holds of
\* scvBool(false) only; value() of scvVoid is undefined
getSorobanResultValue(value) ==
    IF value.arm = "scvBool" /\ ~value.b THEN JsUndefined ELSE value

\* variant: no `if (!xdrPrice) return null`
parseXdrPriceResultUnguarded(xdrPriceResult) ==
    IF xdrPriceResult.arm = "scvMap"
    THEN JsPrice(xdrPriceResult.price, xdrPriceResult.timestamp)
    ELSE JsTypeError

\* parseXdrPriceResult(xdrPriceResult): xdrPrice is undefined for scvVoid,
\* the boolean for scvBool, the entries for scvMap; indexing a boolean and
\* calling .val() of the undefined it gives raises a TypeError
parseXdrPriceResult(xdrPriceResult) ==
    LET falsy == \/ xdrPriceResult.arm = "scvVoid"
                 \/ xdrPriceResult.arm = "scvBool" /\ ~xdrPriceResult.b
    IN  IF falsy THEN JsNull
        ELSE IF xdrPriceResult.arm = "scvMap"
        THEN JsPrice(xdrPriceResult.price, xdrPriceResult.timestamp)
        ELSE JsTypeError

\* parsePriceResult(result)
parsePriceResult(value) ==
    LET val == getSorobanResultValue(value)
    IN  IF val = JsUndefined THEN JsNull ELSE parseXdrPriceResult(val)

\* a caller reads the return value with getSorobanResultValue
ReadResultValue ==
    /\ resultValue = NotDecoded
    /\ resultValue' = getSorobanResultValue(returnValue)
    /\ UNCHANGED <<returnValue, priceResult>>
    /\ UNCHANGED <<cvars, dvars, bvars, svars, nvars, gvars, kvars, mvars, evars, tvars, qvars, rvars, xvars>>

\* a caller decodes the return value with parsePriceResult
ReadPriceResult ==
    /\ priceResult = NotDecoded
    /\ priceResult' = parsePriceResult(returnValue)
    /\ UNCHANGED <<returnValue, resultValue>>
    /\ UNCHANGED <<cvars, dvars, bvars, svars, nvars, gvars, kvars, mvars, evars, tvars, qvars, rvars, xvars>>

InitDecode ==
    /\ IdleFlow
    /\ IdleRound
    /\ IdleSigners
    /\ IdleSign
    /\ IdleMask
    /\ IdleDeposit
    /\ IdleAsset
    /\ returnValue \in ReturnValues
    /\ resultValue = NotDecoded
    /\ priceResult = NotDecoded

NextDecode == ReadResultValue \/ ReadPriceResult

SpecDecode == InitDecode /\ [][NextDecode]_vars

(* ------------------------------- setPrices ----------------------------- *)
RECURSIVE Pow2(_)
\* 1 << k
Pow2(k) == IF k = 0 THEN 1 ELSE 2 * Pow2(k - 1)

\* variant: the bits of a byte are numbered from the most significant one
resolvePeriodUpdateMaskPositionMsb(assetIndex) ==
    <<assetIndex \div 8, Pow2(7 - (assetIndex % 8))>>

\* resolvePeriodUpdateMaskPosition(assetIndex): [byte, bitmask]
resolvePeriodUpdateMaskPosition(assetIndex) ==
    <<assetIndex \div 8, Pow2(assetIndex % 8)>>

\* b | bitmask for a byte b and a bitmask of one bit
BitOr(b, bitmask) ==
    IF (b \div bitmask) % 2 = 1 THEN b ELSE b + bitmask

RECURSIVE OrAll(_)
\* the bitmasks of a set or-ed into a zero byte, one `|` per bitmask
OrAll(bitmasks) ==
    IF bitmasks = {} THEN 0
    ELSE LET bitmask == CHOOSE m \in bitmasks : TRUE
         IN  BitOr(OrAll(bitmasks \ {bitmask}), bitmask)

\* the turns of the for-loop that reach `mask[byte] = mask[byte] | bitmask`:
\* the price is positive and the byte is not beyond the buffer
MaskedIndexes(updates) ==
    {assetIndex \in 0..(Len(updates) - 1) :
        /\ updates[assetIndex + 1] > 0
        /\ ~(resolvePeriodUpdateMaskPosition(assetIndex)[1] >= MaskBytes)}

\* generateUpdateRecordMask(updates): a zeroed buffer in which every byte
\* has received the bitmasks of the turns that resolve to it
generateUpdateRecordMask(updates) ==
    LET turns == MaskedIndexes(updates)
    IN  [byte \in 0..(MaskBytes - 1) |->
            OrAll({resolvePeriodUpdateMaskPosition(assetIndex)[2] :
                     assetIndex \in {t \in turns :
                        resolvePeriodUpdateMaskPosition(t)[1] = byte}})]

\* update.prices.filter(u => u > 0)
PositivePrices(updates) == SelectSeq(updates, LAMBDA u : u > 0)

\* the prices of an update: -1 and 0 stand for an asset without price
PriceValues == {-1, 0, 50, 100}

\* lengths of the run of equal prices that leads a list, up to the last
\* index the mask has a bit for
LeadLengths == {0, 8 * MaskBytes - 2, 8 * MaskBytes - 1, 8 * MaskBytes}

\* the mask and prices entries of the set_price argument
SetPrices ==
    /\ mask = <<>>
    /\ mask' = generateUpdateRecordMask(prices)
    /\ priceVec' = PositivePrices(prices)
    /\ UNCHANGED prices
    /\ UNCHANGED <<cvars, dvars, bvars, svars, nvars, gvars, kvars, pvars, evars, tvars, qvars, rvars, xvars>>

InitMask ==
    /\ IdleFlow
    /\ IdleRound
    /\ IdleSigners
    /\ IdleSign
    /\ IdleDecode
    /\ \E lead \in LeadLengths, filler \in {-1, 100} :
       \E tail \in SeqsUpTo(PriceValues, MaxTail) :
          prices = [i \in 1..lead |-> filler] \o tail
    /\ mask = <<>>
    /\ priceVec = <<>>
    /\ IdleDeposit
    /\ IdleAsset

NextMask == SetPrices

SpecMask == InitMask /\ [][NextMask]_vars

(* ------------------------ buildDepositParamsScVal ---------------------- *)
\* a property of the mapping; key is the number its name is written as
DepositProperty(key, val) == [key |-> key, val |-> val]

\* variant: (a, b) => Number(b[0]) - Number(a[0])
CompareKeysDescending(a, b) == b.key - a.key

\* the comparator (a, b) => Number(a[0]) - Number(b[0])
CompareKeys(a, b) == a.key - b.key

RECURSIVE SortEntries(_)
\* array.sort(comparator): stable, an entry goes behind those the
\* comparator does not put after it
SortEntries(entries) ==
    IF entries = <<>> THEN <<>>
    ELSE LET n == Len(entries)
             last == entries[n]
             sorted == SortEntries(SubSeq(entries, 1, n - 1))
             ahead == SelectSeq(sorted, LAMBDA e : CompareKeys(e, last) <= 0)
             behind == SelectSeq(sorted, LAMBDA e : CompareKeys(e, last) > 0)
         IN  ahead \o <<last>> \o behind

RECURSIVE ObjectEntries(_)
\* Object.entries(depositParams): properties named by integers come in
\* ascending order of the integer, whatever the order of insertion
ObjectEntries(inserted) ==
    IF inserted = <<>> THEN <<>>
    ELSE LET n == Len(inserted)
             last == inserted[n]
             before == ObjectEntries(SubSeq(inserted, 1, n - 1))
         IN  SelectSeq(before, LAMBDA e : e.key < last.key)
                \o <<last>>
                \o SelectSeq(before, LAMBDA e : e.key > last.key)

\* new xdr.ScMapEntry({key: scvU32(Number(v[0])), val: nativeToScVal(v[1].toString(), {type: 'i128'})})
ScMapEntry(v) ==
    [key |-> [arm |-> "scvU32", number |-> v.key],
     val |-> [arm |-> "scvI128", number |-> v.val]]

\* buildDepositParamsScVal(depositParams): the entries of the scvMap
buildDepositParamsScVal(inserted) ==
    LET sorted == SortEntries(ObjectEntries(inserted))
    IN  [i \in 1..Len(sorted) |-> ScMapEntry(sorted[i])]

\* the amounts of the deposit parameters
DepositAmounts == {100000, 10000001}

\* the mappings: every order of insertion of properties with distinct keys
DepositMappings ==
    LET properties == {DepositProperty(k, a) : k \in 0..MaxKey, a \in DepositAmounts}
    IN  {m \in SeqsUpTo(properties, MaxKey + 1) :
            \A i, j \in 1..Len(m) : m[i].key = m[j].key => i = j}

BuildDepositParams ==
    /\ dpc = "idle"
    /\ depositEntries' = buildDepositParamsScVal(depositParams)
    /\ dpc' = "done"
    /\ UNCHANGED depositParams
    /\ UNCHANGED <<cvars, dvars, bvars, svars, nvars, gvars, kvars, pvars, mvars, tvars, qvars, rvars, xvars>>

InitDeposit ==
    /\ IdleFlow
    /\ IdleRound
    /\ IdleSigners
    /\ IdleSign
    /\ IdleDecode
    /\ IdleMask
    /\ depositParams \in DepositMappings
    /\ depositEntries = <<>>
    /\ dpc = "idle"
    /\ IdleAsset

NextDeposit == BuildDepositParams

SpecDeposit == InitDeposit /\ [][NextDeposit]_vars

(* ----------------------------- the asset codec ------------------------- *)
\* buildAssetScVal(asset); new Address(code) raises for a string that is
\* not the strkey of an account or of a contract
buildAssetScVal(a) ==
    IF a.type = AssetTypeStellar
    THEN IF a.code.form \in {"C", "G"}
         THEN [kind |-> "value", err |-> "none",
               val |-> AssetScVal("Stellar",
                                  ScvItem("scvAddress", a.code.form, a.code.id))]
         ELSE [kind |-> "throw", val |-> NoAssetScVal,
               err |-> "Unsupported address type"]
    ELSE IF a.type = AssetTypeOther
    THEN [kind |-> "value", err |-> "none",
          val |-> AssetScVal("Other",
                             ScvItem("scvSymbol", a.code.form, a.code.id))]
    ELSE [kind |-> "throw", val |-> NoAssetScVal, err |-> "Invalid asset type"]

\* variant: a tag that names no type is read as Other
AssetTypeOfTagLenient(assetType) ==
    IF assetType = "Stellar" THEN AssetTypeStellar ELSE AssetTypeOther

\* AssetType[assetType]; 0 stands for undefined
AssetTypeOfTag(assetType) ==
    IF assetType = "Stellar" THEN AssetTypeStellar
    ELSE IF assetType = "Other" THEN AssetTypeOther
    ELSE 0

\* the ways parseAssetResultInternal(xdrAssetResult) can end. For Other the
\* code is xdrAsset[1].value().toString(). For Stellar the code is
\* Address.contract(xdrAsset[1].value().value()).toString(): the strkey of
\* a contract made of the hash of a contract address; for an account
\* address value().value() is the PublicKey object, not a hash, and
\* Address.contract either raises or makes some contract strkey of it; a
\* symbol has no value().value()
parseAssetResultInternal(x) ==
    LET type == AssetTypeOfTag(x.tag)
        decoded(a) == [kind |-> "value", val |-> a, err |-> "none"]
        raised(e) == [kind |-> "throw", val |-> NoAsset, err |-> e]
    IN  IF type = AssetTypeOther
        THEN IF x.item.arm = "scvSymbol"
             THEN {decoded(AssetOf(AssetTypeOther,
                                   CodeString(x.item.form, x.item.id)))}
             ELSE {decoded(AssetOf(AssetTypeOther,
                                   CodeString("text", 0)))}
        ELSE IF type = AssetTypeStellar
        THEN IF x.item.arm = "scvAddress" /\ x.item.form = "C"
             THEN {decoded(AssetOf(AssetTypeStellar,
                                   CodeString("C", x.item.id)))}
             ELSE IF x.item.arm = "scvAddress"
             THEN {raised("TypeError")}
                     \cup {decoded(AssetOf(AssetTypeStellar, CodeString("C", i))) :
                              i \in 0..MaxCode}
             ELSE {raised("TypeError")}
        ELSE {raised("Unknown asset type")}

\* a caller encodes an asset
BuildAssetScVal ==
    /\ assetScVal = NoEncoding
    /\ assetScVal' = buildAssetScVal(asset)
    /\ UNCHANGED <<asset, xdrAssetResult, assetResult>>
    /\ UNCHANGED <<cvars, dvars, bvars, svars, nvars, gvars, kvars, pvars, mvars, evars, qvars, rvars, xvars>>

\* a caller decodes the asset of a result
ParseAssetResult ==
    /\ assetResult = NoDecoding
    /\ assetResult' \in parseAssetResultInternal(xdrAssetResult)
    /\ UNCHANGED <<asset, assetScVal, xdrAssetResult>>
    /\ UNCHANGED <<cvars, dvars, bvars, svars, nvars, gvars, kvars, pvars, mvars, evars, qvars, rvars, xvars>>

\* an asset to encode, and a vector to decode: any vector, among them
\* what buildAssetScVal makes of the asset
InitAsset ==
    /\ IdleFlow
    /\ IdleRound
    /\ IdleSigners
    /\ IdleSign
    /\ IdleDecode
    /\ IdleMask
    /\ IdleDeposit
    /\ asset \in Assets
    /\ assetScVal = NoEncoding
    /\ xdrAssetResult \in AssetScVals
    /\ assetResult = NoDecoding

NextAsset == BuildAssetScVal \/ ParseAssetResult

SpecAsset == InitAsset /\ [][NextAsset]_vars


(* ----------- sends whose answer is lost after the node took them ------ *)
\* catch-block for a sendTransaction that raised (a timeout, a dropped
\* connection) after the node had received and accepted the transaction
RequestRaisesAfterReceipt ==
    /\ mpc = "loop"
    /\ req = "send"
    /\ idx <= Len(sorobanRpcUrl)
    /\ lostAccepts' = lostAccepts \cup {idx}
    /\ tried' = Append(tried, idx)
    /\ debugLog' = Append(debugLog, [url |-> sorobanRpcUrl[idx], at |-> idx])
    /\ errors' = Append(errors, [url |-> sorobanRpcUrl[idx], at |-> idx])
    /\ idx' = idx + 1
    /\ CountRequest
    /\ UNCHANGED <<req, mpc, answered, errorLog, ret, calls>>
    /\ UNCHANGED <<cvars, bpc, txBuilderOptions, simulationResponse, transaction, bres>>
    /\ UNCHANGED <<spc, tx, submitResult, hash, response, tries, sres, getCount, delays>>
    /\ UNCHANGED <<nvars, gvars, kvars, pvars, mvars, evars, tvars, qvars, xvars>>

NextResend ==
    \/ BuildTransaction
    \/ SimulateDone
    \/ SubmitTransaction
    \/ SendDone
    \/ GetDone
    \/ PollAgain
    \/ LoopGetDone
    \/ Delay
    \/ Finish
    \/ ProcessResponse
    \/ RequestReturns
    \/ RequestRaises
    \/ RequestRaisesAfterReceipt
    \/ LogErrors
    \/ ThrowAggregate

SpecResend == Init /\ [][NextResend]_vars

(* ------------------------ the maps of the facades ---------------------- *)
\* the characters of the symbols the facades use as keys, in the order of
\* their char codes ('_' is 95, 'a' is 97)
Alphabet ==
    <<"_", "a", "b", "c", "d", "e", "f", "g", "h", "i", "j", "k", "l", "m",
      "n", "o", "p", "q", "r", "s", "t", "u", "v", "w", "x", "y", "z">>

\* xdr.ScVal.scvSymbol(name), the name given by its characters
Symbol(chars) == [arm |-> "scvSymbol", sym |-> chars, number |-> 0]

\* OracleClient.config: admin, assets, base_asset, cache_size, decimals,
\* fee_config, history_retention_period, resolution
OracleConfigKeys ==
    <<Symbol(<<"a", "d", "m", "i", "n">>),
      Symbol(<<"a", "s", "s", "e", "t", "s">>),
      Symbol(<<"b", "a", "s", "e", "_", "a", "s", "s", "e", "t">>),
      Symbol(<<"c", "a", "c", "h", "e", "_", "s", "i", "z", "e">>),
      Symbol(<<"d", "e", "c", "i", "m", "a", "l", "s">>),
      Symbol(<<"f", "e", "e", "_", "c", "o", "n", "f", "i", "g">>),
      Symbol(<<"h", "i", "s", "t", "o", "r", "y", "_", "r", "e", "t", "e", "n", "t", "i", "o", "n", "_", "p", "e", "r", "i", "o", "d">>),
      Symbol(<<"r", "e", "s", "o", "l", "u", "t", "i", "o", "n">>)>>

\* OracleClient.config_v1: admin, assets, base_asset, decimals, period,
\* resolution
OracleConfigV1Keys ==
    <<Symbol(<<"a", "d", "m", "i", "n">>),
      Symbol(<<"a", "s", "s", "e", "t", "s">>),
      Symbol(<<"b", "a", "s", "e", "_", "a", "s", "s", "e", "t">>),
      Symbol(<<"d", "e", "c", "i", "m", "a", "l", "s">>),
      Symbol(<<"p", "e", "r", "i", "o", "d">>),
      Symbol(<<"r", "e", "s", "o", "l", "u", "t", "i", "o", "n">>)>>

\* OracleClient.setPrices: mask, prices
UpdateRecordKeys ==
    <<Symbol(<<"m", "a", "s", "k">>),
      Symbol(<<"p", "r", "i", "c", "e", "s">>)>>

\* SubscriptionsClient.config: admin, fee, token
SubscriptionsConfigKeys ==
    <<Symbol(<<"a", "d", "m", "i", "n">>),
      Symbol(<<"f", "e", "e">>),
      Symbol(<<"t", "o", "k", "e", "n">>)>>

\* buildTickerAssetScVal: asset, source
TickerAssetKeys ==
    <<Symbol(<<"a", "s", "s", "e", "t">>),
      Symbol(<<"s", "o", "u", "r", "c", "e">>)>>

\* variant: the entries in the order a subscription is described in: owner,
\* base, quote, threshold, heartbeat, webhook
CreateSubscriptionKeysByUse ==
    <<Symbol(<<"o", "w", "n", "e", "r">>),
      Symbol(<<"b", "a", "s", "e">>),
      Symbol(<<"q", "u", "o", "t", "e">>),
      Symbol(<<"t", "h", "r", "e", "s", "h", "o", "l", "d">>),
      Symbol(<<"h", "e", "a", "r", "t", "b", "e", "a", "t">>),
      Symbol(<<"w", "e", "b", "h", "o", "o", "k">>)>>

\* SubscriptionsClient.createSubscription: base, heartbeat, owner, quote,
\* threshold, webhook
CreateSubscriptionKeys ==
    <<Symbol(<<"b", "a", "s", "e">>),
      Symbol(<<"h", "e", "a", "r", "t", "b", "e", "a", "t">>),
      Symbol(<<"o", "w", "n", "e", "r">>),
      Symbol(<<"q", "u", "o", "t", "e">>),
      Symbol(<<"t", "h", "r", "e", "s", "h", "o", "l", "d">>),
      Symbol(<<"w", "e", "b", "h", "o", "o", "k">>)>>

\* DAOClient.config: admin, amount, deposit_params, start_date, token
DaoConfigKeys ==
    <<Symbol(<<"a", "d", "m", "i", "n">>),
      Symbol(<<"a", "m", "o", "u", "n", "t">>),
      Symbol(<<"d", "e", "p", "o", "s", "i", "t", "_", "p", "a", "r", "a", "m", "s">>),
      Symbol(<<"s", "t", "a", "r", "t", "_", "d", "a", "t", "e">>),
      Symbol(<<"t", "o", "k", "e", "n">>)>>

\* DAOClient.createBallot: category, description, initiator, title
BallotKeys ==
    <<Symbol(<<"c", "a", "t", "e", "g", "o", "r", "y">>),
      Symbol(<<"d", "e", "s", "c", "r", "i", "p", "t", "i", "o", "n">>),
      Symbol(<<"i", "n", "i", "t", "i", "a", "t", "o", "r">>),
      Symbol(<<"t", "i", "t", "l", "e">>)>>

\* the calls of the facades that emit a map
Facades ==
    {"OracleClient.config", "OracleClient.config_v1", "OracleClient.setPrices",
     "SubscriptionsClient.config", "SubscriptionsClient.createSubscription",
     "DAOClient.config", "DAOClient.createBallot"}

\* the keys of a map made by buildDepositParamsScVal
DepositKeys(inserted) ==
    LET entries == buildDepositParamsScVal(inserted)
    IN  [i \in 1..Len(entries) |->
            [arm |-> entries[i].key.arm, sym |-> <<>>,
             number |-> entries[i].key.number]]

\* the key lists of the maps in the argument a call builds: the map itself,
\* then the maps it has as values
FacadeMaps(call, params) ==
    CASE call = "OracleClient.config" -> <<OracleConfigKeys>>
      [] call = "OracleClient.config_v1" -> <<OracleConfigV1Keys>>
      [] call = "OracleClient.setPrices" -> <<UpdateRecordKeys>>
      [] call = "SubscriptionsClient.config" -> <<SubscriptionsConfigKeys>>
      [] call = "SubscriptionsClient.createSubscription"
            -> <<CreateSubscriptionKeys, TickerAssetKeys, TickerAssetKeys>>
      [] call = "DAOClient.config" -> <<DaoConfigKeys, DepositKeys(params)>>
      [] call = "DAOClient.createBallot" -> <<BallotKeys>>

\* a facade builds the argument of its contract call
EmitMaps ==
    /\ emitted = <<>>
    /\ emitted' = FacadeMaps(facade, depositParams)
    /\ UNCHANGED facade
    /\ UNCHANGED <<cvars, dvars, bvars, svars, nvars, gvars, kvars, pvars, mvars, evars, tvars, qvars, rvars>>

\* any facade call; config.depositParams matters to DAOClient.config only
InitMaps ==
    /\ InitFlow
    /\ sorobanRpcUrl = <<>>
    /\ ~bounded
    /\ ~options.present
    /\ IdleCalls
    /\ IdleRound
    /\ IdleSigners
    /\ IdleSign
    /\ IdleDecode
    /\ IdleMask
    /\ IdleAsset
    /\ facade \in Facades
    /\ emitted = <<>>
    /\ depositParams \in
          IF facade = "DAOClient.config" THEN DepositMappings ELSE {<<>>}
    /\ depositEntries = <<>>
    /\ dpc = "idle"

NextMaps == EmitMaps

SpecMaps == InitMaps /\ [][NextMaps]_vars

(* --------------- makeServerRequest called concurrently ----------------- *)
\* the calls take client.sorobanRpcUrl; no flow of this client is started
InitConcurrent ==
    /\ InitFlow
    /\ ~bounded
    /\ ~options.present
    /\ IdleCalls
    /\ IdleMaps
    /\ IdleRound
    /\ IdleSigners
    /\ IdleSign
    /\ IdleDecode
    /\ IdleMask
    /\ IdleDeposit
    /\ IdleAsset

\* the error requestFn raises for the endpoint at position i in call c
CallError(c, i) == [url |-> sorobanRpcUrl[i], at |-> i, by |-> c]

\* variant: errors is one array that every call pushes to
PushErrorShared(errs, c, e) == [k \in DOMAIN errs |-> Append(errs[k], e)]

\* errors.push(e) on the array the call made with `const errors = []`
PushError(errs, c, e) == [errs EXCEPT ![c] = Append(@, e)]

\* const errors = []; the for-loop starts at the head of rpcUrls
CallStarts(c) ==
    /\ callPc[c] = "idle"
    /\ callPc' = [callPc EXCEPT ![c] = "loop"]
    /\ callIdx' = [callIdx EXCEPT ![c] = 1]
    /\ callErrors' = [callErrors EXCEPT ![c] = <<>>]
    /\ UNCHANGED <<callErrorLog, callRet, callOutcomes>>
    /\ UNCHANGED <<cvars, dvars, bvars, svars, nvars, gvars, kvars, pvars, mvars, evars, tvars, rvars, xvars>>

\* try-block: `return await requestFn(server)` returns a value
CallRequestReturns(c) ==
    /\ callPc[c] = "loop"
    /\ callIdx[c] <= Len(sorobanRpcUrl)
    /\ \E v \in CallValues :
          /\ callRet' = [callRet EXCEPT ![c] = [kind |-> "value", val |-> v]]
          /\ callOutcomes' = [callOutcomes EXCEPT ![c] =
                  Append(@, [at |-> callIdx[c], raised |-> FALSE, val |-> v])]
    /\ callPc' = [callPc EXCEPT ![c] = "done"]
    /\ UNCHANGED <<callIdx, callErrors, callErrorLog>>
    /\ UNCHANGED <<cvars, dvars, bvars, svars, nvars, gvars, kvars, pvars, mvars, evars, tvars, rvars, xvars>>

\* catch-block: errors.push(e), next rpcUrl
CallRequestRaises(c) ==
    /\ callPc[c] = "loop"
    /\ callIdx[c] <= Len(sorobanRpcUrl)
    /\ callErrors' = PushError(callErrors, c, CallError(c, callIdx[c]))
    /\ callOutcomes' = [callOutcomes EXCEPT ![c] =
            Append(@, [at |-> callIdx[c], raised |-> TRUE, val |-> "none"])]
    /\ callIdx' = [callIdx EXCEPT ![c] = @ + 1]
    /\ UNCHANGED <<callPc, callErrorLog, callRet>>
    /\ UNCHANGED <<cvars, dvars, bvars, svars, nvars, gvars, kvars, pvars, mvars, evars, tvars, rvars, xvars>>

\* the list is exhausted: `for (const e of errors) console.error(e)`
CallLogErrors(c) ==
    /\ callPc[c] = "loop"
    /\ callIdx[c] > Len(sorobanRpcUrl)
    /\ callErrorLog' = [callErrorLog EXCEPT ![c] = callErrors[c]]
    /\ callPc' = [callPc EXCEPT ![c] = "throw"]
    /\ UNCHANGED <<callIdx, callErrors, callRet, callOutcomes>>
    /\ UNCHANGED <<cvars, dvars, bvars, svars, nvars, gvars, kvars, pvars, mvars, evars, tvars, rvars, xvars>>

\* throw new Error('Failed to make request.')
CallThrowAggregate(c) ==
    /\ callPc[c] = "throw"
    /\ callRet' = [callRet EXCEPT ![c] =
            [kind |-> "throw", val |-> "Failed to make request."]]
    /\ callPc' = [callPc EXCEPT ![c] = "done"]
    /\ UNCHANGED <<callIdx, callErrors, callErrorLog, callOutcomes>>
    /\ UNCHANGED <<cvars, dvars, bvars, svars, nvars, gvars, kvars, pvars, mvars, evars, tvars, rvars, xvars>>

NextConcurrent ==
    \E c \in Calls :
        \/ CallStarts(c)
        \/ CallRequestReturns(c)
        \/ CallRequestRaises(c)
        \/ CallLogErrors(c)
        \/ CallThrowAggregate(c)

SpecConcurrent == InitConcurrent /\ [][NextConcurrent]_vars

(* ------------------------------ properties ----------------------------- *)
\* the submission ended because the bounded helper ran out of tries
TimedOut == bounded /\ tries > RetryBound

\* C1: whenever polling ends with status FAILED, submitTransaction throws an
\* error that carries status FAILED, the hash of the send step and the three
\* payloads envelopeXdr, resultXdr and resultMetaXdr.
C1_FailedThrows ==
    (spc = "done" /\ response.status = "FAILED" /\ ~TimedOut)
        => /\ sres.kind = "throw"
           /\ sres.err.status = "FAILED"
           /\ sres.err.hash = submitResult.hash
           /\ sres.err.envelopeXdr = "envelope"
           /\ sres.err.resultXdr = "result"
           /\ sres.err.resultMetaXdr = "meta"

\* C2: for every send answer whose status is not PENDING, with or without an
\* errorResult, submitTransaction throws an error carrying that status and
\* the send hash, and no getTransaction request is issued.
C2_RejectionCarriesStatusAndHash ==
    (spc = "done" /\ submitResult.status \notin {"none", "PENDING"})
        => /\ sres.kind = "throw"
           /\ sres.err.status = submitResult.status
           /\ sres.err.hash = submitResult.hash
           /\ getCount = 0

\* C3: when the bounded submitTransaction runs past its retry bound with the
\* answers still NOT_FOUND or PENDING, it throws the timeout error, which
\* carries no FAILED status, and it returns no response.
C3_TimeoutDistinct ==
    (bounded /\ tries > RetryBound /\ Waiting(response.status))
        => /\ spc = "done"
           /\ sres.kind = "throw"
           /\ sres.err = TimeoutError
           /\ sres.err.status # "FAILED"
           /\ sres.response = NoResponse

C3_Witness ==
    /\ bounded
    /\ tries = RetryBound + 1
    /\ getCount = RetryBound + 2
    /\ response.status = "NOT_FOUND"
    /\ sres.kind = "throw"

\* C4: OracleClient.submitTransaction ends after a bounded number of
\* getTransaction requests, whatever the network answers: it never issues
\* more than the one request before the loop and the RetryBound + 1 requests
\* inside it that the bounded helper allows.
C4_BoundedPolls == ~bounded => getCount <= RetryBound + 2

C6_FirstSuccessInOrder ==
    /\ \A i \in 1..Len(tried) : tried[i] = i
    /\ \A i \in 1..Len(tried) :
          i < Len(tried) => \E j \in 1..Len(errors) : errors[j].at = tried[i]
    /\ Len(answered) <= 1
    /\ ret.kind = "value" <=> Len(answered) = 1
    /\ ret.kind = "value"
          => /\ mpc = "done"
             /\ answered[1].at = tried[Len(tried)]
             /\ ret.val = answered[1].val
             /\ Len(errors) = Len(tried) - 1

C6_Witness ==
    /\ ret.kind = "value"
    /\ Len(sorobanRpcUrl) = 2
    /\ tried = <<1, 2>>
    /\ Len(errors) = 1

\* C7: when requestFn raises on every endpoint (also for an empty list),
\* makeServerRequest raises one aggregate failure, after every endpoint was
\* tried once and every collected error was logged; no endpoint is tried
\* twice within a call.
C7_AggregateAfterAllFailed ==
    /\ \A i, j \in 1..Len(tried) : tried[i] = tried[j] => i = j
    /\ ret.kind = "throw"
          => /\ ret.err = NewError("Failed to make request.")
             /\ Len(tried) = Len(sorobanRpcUrl)
             /\ \A k \in 1..Len(sorobanRpcUrl) : \E i \in 1..Len(tried) : tried[i] = k
             /\ Len(errors) = Len(sorobanRpcUrl)
             /\ errorLog = errors
             /\ answered = <<>>
    /\ (mpc = "done" /\ Len(errors) = Len(sorobanRpcUrl)) => ret.kind = "throw"

C7_Witness ==
    /\ ret.kind = "throw"
    /\ Len(sorobanRpcUrl) = 2
    /\ Len(errorLog) = 2

\* C8: when the simulation reports no error and a footprint to restore,
\* buildTransaction returns a restore transaction whose fee is
\* roundValue(BASE_FEE + the minimum restore fee); the invocation is neither
\* assembled nor sent, and nothing simulates or sends it afterwards.
C8_RestoreInsteadOfInvocation ==
    /\ (bpc = "done" /\ spc = "idle" /\ simulationResponse.error = "none"
            /\ simulationResponse.restore)
          => /\ bres.kind = "return"
             /\ bres.tx.kind = "restore"
             /\ bres.tx.fee =
                    roundValue(BASE_FEE + simulationResponse.restoreMinResourceFee)
             /\ sendCount = 0
    /\ bres.tx.kind = "restore"
          => /\ bpc = "done"
             /\ [tx EXCEPT !.signatures = <<>>] \in {NoTx, bres.tx}
             /\ simulateCount <= Len(sorobanRpcUrl)

C8_Witness ==
    /\ bpc = "done"
    /\ simulationResponse.restore
    /\ simulationResponse.restoreMinResourceFee = 1134
    /\ bres.tx.kind = "restore"
    /\ bres.tx.fee = 2000

\* C9: when the simulation answer carries an error, buildTransaction throws
\* an error with exactly that text and produces neither a restore nor an
\* assembled transaction, also when the answer asks for a restore.
C9_SimulationErrorSurfaced ==
    (bpc = "done" /\ simulationResponse.error # "none")
        => bres = [kind |-> "throw", tx |-> NoTx,
                   err |-> NewError(simulationResponse.error)]

C9_Witness ==
    /\ bpc = "done"
    /\ simulationResponse.error # "none"
    /\ simulationResponse.restore
    /\ bres.kind = "throw"

\* C10: the resource fee of every assembled transaction is at least
\* MinResourceFee, whatever raw fee the simulation reported.
C10_ResourceFeeFloor ==
    /\ bres.tx.kind = "assembled" => bres.tx.resourceFee >= MinResourceFee
    /\ tx.kind = "assembled" => tx.resourceFee >= MinResourceFee

C10_Witness ==
    /\ bpc = "done"
    /\ simulationResponse.feeNumeric
    /\ simulationResponse.minResourceFee = 0
    /\ bres.tx.kind = "assembled"
    /\ bres.tx.resourceFee = MinResourceFee


\* C12: roundValue(0) = 0, and roundValue(n) >= n for every integer n > 0.
C12_ZeroAndNotBelow ==
    rounded # -1
        => /\ rawValue = 0 => rounded = 0
           /\ rawValue > 0 => rounded >= rawValue

C12_Witness ==
    /\ rawValue = 999
    /\ rounded = 1900

C11_SameAssembledTransaction ==
    (assembled[1] # NoTx /\ assembled[2] # NoTx)
        => assembled[1] = assembled[2]

\* C15: buildTransaction called without options throws 'options are
\* required' at once: no draft transaction is built, no builder options
\* are made and no simulateTransaction request reaches any node.
C15_MissingOptionsFailFirst ==
    (~options.present /\ bpc # "idle")
        => /\ bpc = "done"
           /\ bres = [kind |-> "throw", tx |-> NoTx,
                      err |-> NewError("options are required")]
           /\ transaction = NoTx
           /\ txBuilderOptions = NoBuilderOptions
           /\ simulateCount = 0
           /\ mpc = "idle"
           /\ req = "none"

C15_Witness ==
    /\ ~options.present
    /\ Len(sorobanRpcUrl) = 2
    /\ bpc = "done"
    /\ bres.kind = "throw"

\* C16: no step of the flow changes the caller's options object (fee, memo,
\* timebounds, networkPassphrase), whether buildTransaction assembles,
\* builds the restore transaction with a rewritten fee, or throws.
C16_OptionsUnchanged == [][options' = options]_vars

C16_Witness ==
    /\ bpc = "done"
    /\ bres.tx.kind = "restore"
    /\ txBuilderOptions.fee = bres.tx.fee
    /\ txBuilderOptions.fee # options.fee
    /\ txBuilderOptions.networkPassphrase = Network
    /\ options.networkPassphrase = "none"
    /\ options.memo = "update"

C19_CallerTransactionKept == [][bres.kind = "return" => bres' = bres]_vars

C19_Witness ==
    /\ spc = "done"
    /\ sres.kind = "throw"
    /\ tx.signatures = <<"sigA", "sigB">>
    /\ bres.tx.signatures = <<>>
    /\ bres.tx = [tx EXCEPT !.signatures = <<>>]

\* C20: in one flow makeServerRequest is called at most once for a
\* simulate and at most once for a send: exactly one simulate and no send
\* by a buildTransaction that was given options, exactly one send by
\* submitTransaction; a failed build is followed by no send, and once
\* submitTransaction has ended no request is in flight. Nodes receive at
\* most one request of each kind per endpoint of the list.
C20_NoReissue ==
    /\ calls["simulate"] <= 1
    /\ calls["send"] <= 1
    /\ (options.present /\ bpc # "idle") => calls["simulate"] = 1
    /\ spc = "idle" => calls["send"] = 0 /\ calls["get"] = 0
    /\ spc # "idle" => calls["send"] = 1 /\ calls["simulate"] = 1
    /\ bres.kind = "throw" => spc = "idle" /\ (bpc = "done" => mpc = "idle")
    /\ spc = "done" => mpc = "idle" /\ req = "none"
    /\ simulateCount <= Len(sorobanRpcUrl)
    /\ sendCount <= Len(sorobanRpcUrl)

C20_Witness ==
    /\ spc = "done"
    /\ TimedOut
    /\ calls["simulate"] = 1
    /\ calls["send"] = 1
    /\ sendCount = 2
    /\ simulateCount = 2

\* C18: for a non-empty array of N distinct keypairs signTransaction returns
\* exactly floor(N/2) + 1 signatures, made by pairwise different keypairs of
\* the array, each over the hash of the transaction; one signature for N = 1.
C18_MajoritySignatures ==
    (kpc = "done" /\ Len(keypairs) >= 1)
        => /\ Len(signatures) = Len(keypairs) \div 2 + 1
           /\ Len(keypairs) = 1 => Len(signatures) = 1
           /\ \A i \in 1..Len(signatures) :
                 /\ \E j \in 1..Len(keypairs) : signatures[i].hint = keypairs[j]
                 /\ signatures[i].signature = <<signatures[i].hint, transactionHash>>
           /\ \A i, j \in 1..Len(signatures) :
                 signatures[i].hint = signatures[j].hint => i = j

C18_Witness ==
    /\ kpc = "done"
    /\ Len(keypairs) = 3
    /\ Len(signatures) = 2
    /\ signatures[1].hint = 3
    /\ signatures[2].hint = 1

\* C21: with options.simulationOnly the call returns the simulation
\* response, not a transaction, after exactly one simulate call and no send.
C21_SimulationOnlyReturnsResponse ==
    (options.simulationOnly /\ bpc = "done"
        /\ simulationResponse.error = "none" /\ ~simulationResponse.restore
        /\ simulationResponse.feeNumeric)
        => /\ bres.kind = "return"
           /\ bres.tx = NoTx
           /\ calls["simulate"] = 1
           /\ calls["send"] = 0

\* C22: a result suppressed for a footprint mismatch, scvBool(false), never
\* decodes to what a legitimately returned null, scvVoid, decodes to:
\* neither through getSorobanResultValue nor through parsePriceResult.
C22_SuppressedDistinctFromNull ==
    /\ (returnValue = ScvBool(FALSE) /\ resultValue # NotDecoded)
          => resultValue # getSorobanResultValue(ScvVoid)
    /\ (returnValue = ScvBool(FALSE) /\ priceResult # NotDecoded)
          => priceResult # parsePriceResult(ScvVoid)

\* C23: the result of a price query that found no record, scvVoid, decodes
\* to null: not to undefined and not to a raised error.
C23_NoRecordDecodesToNull ==
    (returnValue = ScvVoid /\ priceResult # NotDecoded)
        => /\ priceResult = JsNull
           /\ priceResult # JsUndefined
           /\ priceResult.js # "TypeError"

C23_Witness ==
    /\ returnValue = ScvVoid
    /\ resultValue = ScvVoid
    /\ priceResult = JsNull

\* C24: the mask setPrices emits has 32 bytes, and bit (i mod 8) of byte
\* floor(i/8) is set iff price i exists and is positive, for every i below
\* 256; the emitted vector is the positive prices in their order. For
\* [100, -1, 50] bits 0 and 2 only are set and the vector is [100, 50].
C24_MaskAndVector ==
    mask # <<>>
        => /\ DOMAIN mask = 0..31
           /\ \A i \in 0..255 :
                 ((mask[i \div 8] \div Pow2(i % 8)) % 2 = 1)
                    <=> (i < Len(prices) /\ prices[i + 1] > 0)
           /\ priceVec = SelectSeq(prices, LAMBDA u : u > 0)
           /\ prices = <<100, -1, 50>>
                 => /\ mask = [byte \in 0..31 |-> IF byte = 0 THEN 5 ELSE 0]
                    /\ priceVec = <<100, 50>>

C24_Witness ==
    /\ Len(prices) = 258
    /\ prices[1] = -1
    /\ prices[256] = 50
    /\ prices[257] = 100
    /\ mask = [byte \in 0..31 |-> IF byte = 31 THEN 128 ELSE 0]
    /\ priceVec = <<50, 100, 100>>

\* C25: buildDepositParamsScVal emits one entry per property, with keys
\* strictly ascending (hence unique) and each key with the amount it was
\* inserted with: the sequence depends on the key/value pairs only, not on
\* the order in which they were inserted.
C25_AscendingKeys ==
    dpc = "done"
        => /\ Len(depositEntries) = Len(depositParams)
           /\ \A i \in 1..(Len(depositEntries) - 1) :
                 depositEntries[i].key.number < depositEntries[i + 1].key.number
           /\ \A i \in 1..Len(depositParams) :
                 \E j \in 1..Len(depositEntries) :
                    /\ depositEntries[j].key.number = depositParams[i].key
                    /\ depositEntries[j].val.number = depositParams[i].val

C25_Witness ==
    /\ dpc = "done"
    /\ Len(depositParams) = 4
    /\ depositParams[1].key = 3
    /\ depositParams[2].key = 0
    /\ depositParams[3].key = 2
    /\ depositEntries[1].key.number = 0
    /\ depositEntries[4].key.number = 3

\* C26: for a Stellar asset whose code is a 56-character address and for an
\* Other asset with a short code, decoding the vector buildAssetScVal made
\* of the asset returns an asset equal to it.
C26_AssetRoundTrip ==
    (/\ \/ asset.type = AssetTypeStellar /\ asset.code.form \in {"C", "G"}
        \/ asset.type = AssetTypeOther /\ asset.code.form = "text"
     /\ assetScVal.kind = "value"
     /\ xdrAssetResult = assetScVal.val
     /\ assetResult # NoDecoding)
        => assetResult = [kind |-> "value", val |-> asset, err |-> "none"]

\* C27: buildAssetScVal emits [Stellar, address] for type Stellar (with an
\* address as code) and [Other, symbol] for type Other, and raises 'Invalid
\* asset type' for every other type; parseAssetResultInternal raises
\* 'Unknown asset type' for every tag other than Stellar and Other.
C27_ClosedMatch ==
    /\ assetScVal # NoEncoding
          => /\ (asset.type = 1 /\ asset.code.form \in {"C", "G"})
                   => /\ assetScVal.kind = "value"
                      /\ assetScVal.val.tag = "Stellar"
                      /\ assetScVal.val.item =
                            ScvItem("scvAddress", asset.code.form, asset.code.id)
             /\ asset.type = 2
                   => /\ assetScVal.kind = "value"
                      /\ assetScVal.val.tag = "Other"
                      /\ assetScVal.val.item =
                            ScvItem("scvSymbol", asset.code.form, asset.code.id)
             /\ asset.type \notin {1, 2}
                   => /\ assetScVal.kind = "throw"
                      /\ assetScVal.err = "Invalid asset type"
    /\ (assetResult # NoDecoding /\ xdrAssetResult.tag \notin {"Stellar", "Other"})
          => /\ assetResult.kind = "throw"
             /\ assetResult.err = "Unknown asset type"

C27_Witness ==
    /\ asset.type = 3
    /\ assetScVal.kind = "throw"
    /\ xdrAssetResult.tag = "stellar"
    /\ assetResult.kind = "throw"

\* C28: the restore transaction buildTransaction returns has the source
\* account and the sequence number of the draft that was simulated, also
\* when other flows advance the account while the simulation is awaited.
C28_RestoreKeepsDraftSequence ==
    (bpc = "done" /\ bres.kind = "return" /\ bres.tx.kind = "restore")
        => /\ bres.tx.source = transaction.source
           /\ bres.tx.seq = transaction.seq

\* C29: an in-loop getTransaction is requested only after a PENDING or
\* NOT_FOUND response, a returned response has another status, and every
\* two consecutive getTransaction requests of a submission have an
\* inter-poll delay between them: n requests come with at least n - 1 delays.
C29_PollsSeparatedByDelay ==
    /\ spc = "loopget" => Waiting(response.status)
    /\ (spc = "done" /\ sres.kind = "return")
            => ~Waiting(sres.response.status)
    /\ getCount >= 1 => delays >= getCount - 1

\* C30: the transaction submitTransaction hands to sendTransaction has at
\* least one signature attached.
C30_SentTransactionSigned == spc # "idle" => Len(tx.signatures) >= 1

\* C31: a simulation answer that carries an error is a value the dispatcher
\* returns: it ends the call at the endpoint that gave it, after exactly the
\* endpoints before it raised, nothing is logged as a failure and no later
\* endpoint is asked; buildTransaction throws that error once, and nothing
\* is simulated or sent afterwards. The dispatcher has moved on exactly as
\* many times as errors were raised.
C31_SimulationErrorEndsDispatch ==
    /\ mpc = "loop" => idx = Len(errors) + 1
    /\ (req = "simulate" /\ ret.kind = "value" /\ ret.val.error # "none")
          => /\ mpc = "done"
             /\ answered = <<[at |-> Len(tried), val |-> ret.val]>>
             /\ Len(errors) = Len(tried) - 1
             /\ simulateCount = Len(tried)
             /\ errorLog = <<>>
    /\ (bpc = "done" /\ simulationResponse.error # "none")
          => /\ bres = [kind |-> "throw", tx |-> NoTx,
                        err |-> NewError(simulationResponse.error)]
             /\ req # "simulate"
             /\ calls["simulate"] = 1
             /\ spc = "idle"
             /\ sendCount = 0
             /\ simulateCount <= Len(sorobanRpcUrl)

C31_Witness ==
    /\ bpc = "done"
    /\ simulationResponse.error = "HostError: auth failed"
    /\ Len(sorobanRpcUrl) = 2
    /\ simulateCount = 1
    /\ bres.kind = "throw"

\* what call c holds follows from how its own requests ended and from the
\* endpoint list alone
OwnOutcome(c) ==
    LET own == callOutcomes[c]
        raisedAt == {i \in 1..Len(own) : own[i].raised}
    IN  /\ \A i \in 1..Len(own) : own[i].at = i
        /\ callErrors[c] =
              [j \in 1..Cardinality(raisedAt) |-> CallError(c, j)]
        /\ \A i \in 1..Len(own) : ~own[i].raised => i = Len(own)
        /\ callRet[c].kind = "value"
              => /\ Len(own) >= 1
                 /\ ~own[Len(own)].raised
                 /\ callRet[c].val = own[Len(own)].val
        /\ callRet[c].kind = "throw"
              => /\ Len(own) = Len(sorobanRpcUrl)
                 /\ raisedAt = 1..Len(own)
                 /\ callErrorLog[c] = callErrors[c]
        /\ callPc[c] = "done" <=> callRet[c].kind # "none"
        /\ (callPc[c] = "done" /\ raisedAt = 1..Len(sorobanRpcUrl))
              => callRet[c].kind = "throw"

\* C32: in every step of concurrent makeServerRequest calls on one endpoint
\* list, the list stays as it was, and the errors, the log and the outcome
\* of each call are those of its own requests: an error another call
\* collected is in none of them.
C32_CallsIndependent ==
    [][/\ sorobanRpcUrl' = sorobanRpcUrl
       /\ \A c \in Calls : OwnOutcome(c)']_vars

C32_Witness ==
    /\ Len(sorobanRpcUrl) = 2
    /\ callPc[1] = "done"
    /\ callRet[1].kind = "throw"
    /\ callPc[2] = "done"
    /\ callRet[2] = [kind |-> "value", val |-> "r2"]
    /\ Len(callErrors[2]) = 1
    /\ Len(callErrors[1]) = 2

\* C33: when submitTransaction throws the error of a send answer whose
\* status is not PENDING, no node has accepted the transaction in that
\* call, also when the send to an earlier endpoint raised and the
\* transaction was sent again to the next endpoint.
C33_RejectedMeansNotAccepted ==
    (spc = "done" /\ sres.kind = "throw"
        /\ sres.err.status \in SendStatuses \ {"PENDING"})
        => lostAccepts = {}

\* C34: the restore transaction buildTransaction returns has the time
\* bounds, the memo and the network passphrase of the draft it simulated,
\* also when the caller writes to the timebounds object of its options
\* while the simulation is awaited.
C34_RestoreKeepsDraftOptions ==
    (bpc = "done" /\ bres.kind = "return" /\ bres.tx.kind = "restore")
        => /\ bres.tx.timebounds = transaction.timebounds
           /\ bres.tx.memo = transaction.memo
           /\ bres.tx.network = transaction.network

\* C35: when a getTransaction of the polling, the first or one in the loop,
\* has failed on every endpoint, the next step ends submitTransaction with
\* the aggregate failure of makeServerRequest, which has no status and no
\* hash: no response is returned, no further request is issued, no try is
\* counted, and the error is neither the timeout error nor a FAILED error;
\* nothing changes that outcome afterwards.
C35_PollFailureEndsSubmit ==
    [][/\ (spc \in {"get", "loopget"} /\ ret.kind = "throw")
            => /\ spc' = "done"
               /\ sres' = [kind |-> "throw", response |-> NoResponse,
                           err |-> NewError("Failed to make request.")]
               /\ sres'.err.status = "none"
               /\ sres'.err.hash = "none"
               /\ sres'.err # TimeoutError
               /\ getCount' = getCount
               /\ tries' = tries
               /\ mpc' = "idle"
       /\ spc = "done" => /\ sres' = sres
                          /\ getCount' = getCount
                          /\ spc' = "done"]_vars

C35_Witness ==
    /\ spc = "done"
    /\ bounded
    /\ Len(sorobanRpcUrl) = 2
    /\ sres.err = NewError("Failed to make request.")
    /\ getCount = 3
    /\ tries = 1
    /\ response.status = "PENDING"

\* C36: the bounded submitTransaction issues at most RetryBound + 2
\* getTransaction requests, one before the loop and at most RetryBound + 1
\* in it, and it throws the timeout error exactly when the answer to the
\* request number RetryBound + 1 of the loop is still PENDING or NOT_FOUND.
C36_TimeoutExactlyWhenStillWaiting ==
    bounded
        => /\ getCount <= RetryBound + 2
           /\ tries <= RetryBound + 1
           /\ (spc = "done" /\ sres.err = TimeoutError)
                 <=> (tries = RetryBound + 1 /\ Waiting(response.status))

\* the asset indexes whose bit is set in the mask
MaskBits ==
    {i \in 0..(8 * MaskBytes - 1) : (mask[i \div 8] \div Pow2(i % 8)) % 2 = 1}

\* C37: the mask setPrices emits has as many bits set as the emitted vector
\* has values, for every price list.
C37_BitsMatchValues ==
    mask # <<>> => Cardinality(MaskBits) = Len(priceVec)

RECURSIVE SymbolLess(_, _)
\* the order of two symbols: byte by byte, a proper prefix first
SymbolLess(a, b) ==
    LET code(ch) == CHOOSE i \in 1..Len(Alphabet) : Alphabet[i] = ch
    IN  IF b = <<>> THEN FALSE
        ELSE IF a = <<>> THEN TRUE
        ELSE IF Head(a) # Head(b) THEN code(Head(a)) < code(Head(b))
        ELSE SymbolLess(Tail(a), Tail(b))

\* the order of two keys of the same kind
KeyLess(a, b) ==
    /\ a.arm = b.arm
    /\ IF a.arm = "scvSymbol" THEN SymbolLess(a.sym, b.sym)
       ELSE a.number < b.number

\* C38: in every map a facade builds, the map of the argument and the maps
\* it has as values, each key is less than the key after it: the entries
\* are in strictly ascending key order and no key comes twice.
C38_MapsKeyOrdered ==
    \A m \in 1..Len(emitted) :
        \A i \in 1..(Len(emitted[m]) - 1) :
            KeyLess(emitted[m][i], emitted[m][i + 1])

C38_Witness ==
    /\ facade = "DAOClient.config"
    /\ Len(emitted) = 2
    /\ Len(emitted[1]) = 5
    /\ Len(emitted[2]) = 3
    /\ depositParams[1].key = 3
    /\ depositParams[2].key = 0
    /\ emitted[2][1].number = 0

\* C39: roundValue never gives more than twice its argument, and it is
\* non-decreasing: roundValue(n - 1) <= roundValue(n) for every n > 1, from
\* which roundValue(a) <= roundValue(b) follows for all 0 < a <= b by
\* transitivity.
C39_MonotoneAtMostDouble ==
    (rounded # -1 /\ rawValue > 0)
        => /\ rounded <= 2 * rawValue
           /\ rawValue > 1 => roundValue(rawValue - 1) <= rounded

C39_Witness ==
    /\ rawValue = 1000
    /\ rounded = 2000
    /\ roundValue(999) = 1900

====
